---------------------------- MODULE Spec2Model ----------------------------
(***************************************************************************)
(* A model of pysingfel's geometry module (src/pysingfel/geometry.py and   *)
(* src/pysingfel/geometry/__init__.py): the trilinear slice engine, the    *)
(* rotation converters, the orientation samplers and the panel assembler.  *)
(*                                                                         *)
(* Numbers.  The code computes in np.float64.  Here a float is an exact    *)
(* rational <<n, d>> (d > 0, lowest terms) and every input set is chosen   *)
(* so that each sqrt, sin and cos the code takes is rational again; the    *)
(* rounding error of float64 is outside the model.  The one numerical      *)
(* sweep whose control flow depends on transcendental values,              *)
(* points_on_2sphere, is modelled in fixed point (see FP below).           *)
(*                                                                         *)
(* Each group of functions has its own specification; a variable that a    *)
(* specification does not use stays at Idle.                               *)
(***************************************************************************)
EXTENDS Integers, Sequences, FiniteSets, TLC

VARIABLES
    stencil,    \* a call of get_weight_and_index / get_weight_in_reciprocal_space
    slicer,     \* a call of take_n_slice: its arguments, loop counter and holder
    assembly,   \* a call of assemble_image_stack or assemble_image_stack_batch
    convert,    \* a call of one of the rotation converters
    sphere,     \* a call of points_on_2sphere, get_random_quat or points_on_1sphere
    detector,   \* a call of get_reciprocal_position_and_correction
    particle,   \* a call of get_random_translations
    mesh        \* a call of get_reciprocal_mesh

vars == <<stencil, slicer, assembly, convert, sphere, detector, particle, mesh>>

Idle == [pc |-> "idle"]

\* what a call held in one variable leaves unchanged
NotStencil == <<slicer, assembly, convert, sphere, detector, particle, mesh>>
NotSlicer == <<stencil, assembly, convert, sphere, detector, particle, mesh>>
NotAssembly == <<stencil, slicer, convert, sphere, detector, particle, mesh>>
NotConvert == <<stencil, slicer, assembly, sphere, detector, particle, mesh>>
NotSphere == <<stencil, slicer, assembly, convert, detector, particle, mesh>>
NotDetector == <<stencil, slicer, assembly, convert, sphere, particle, mesh>>
NotParticle == <<stencil, slicer, assembly, convert, sphere, detector, mesh>>
NotMesh == <<stencil, slicer, assembly, convert, sphere, detector, particle>>

---------------------------------------------------------------------------
(* Bounds of the model                                                     *)

MaxPos == 2             \* pixel coordinates are integers in -MaxPos..MaxPos
MaxVoxelLength == 3     \* voxel_length is an integer in 1..MaxVoxelLength
MaxHalfNum == 2         \* voxel_num_1d is in 1..(2 * MaxHalfNum + 1)
MaxVolumeHalfNum == 1   \* a sampled volume has side 2*k + 1 for k in 1..MaxVolumeHalfNum

---------------------------------------------------------------------------
(* Exact rational arithmetic on pairs <<n, d>>                             *)

Abs(a) == IF a < 0 THEN -a ELSE a

RECURSIVE GCD(_, _)
GCD(a, b) == IF b = 0 THEN (IF a = 0 THEN 1 ELSE a) ELSE GCD(b, a % b)

\* <<n, 0>> stands for a float that is no finite number (inf, nan)
Frac(n, d) ==
    LET s == IF d < 0 THEN -1 ELSE 1
        g == GCD(Abs(n), Abs(d))
    IN  <<(s * n) \div g, (s * d) \div g>>

RInt(k) == <<k, 1>>
\* sums and comparisons go through the gcd of the denominators, and products
\* cancel crosswise first, so that intermediate values stay small
RAdd(x, y) ==
    LET g == GCD(x[2], y[2])
    IN  Frac(x[1] * (y[2] \div g) + y[1] * (x[2] \div g), (x[2] \div g) * y[2])
RNeg(x) == <<-x[1], x[2]>>
RSub(x, y) == RAdd(x, RNeg(y))
RMul(x, y) ==
    LET g1 == GCD(Abs(x[1]), y[2])
        g2 == GCD(Abs(y[1]), x[2])
    IN  Frac((x[1] \div g1) * (y[1] \div g2), (x[2] \div g2) * (y[2] \div g1))
RDiv(x, y) == RMul(x, IF y[1] < 0 THEN <<-y[2], -y[1]>> ELSE <<y[2], y[1]>>)
RLt(x, y) ==
    LET g == GCD(x[2], y[2])
    IN  x[1] * (y[2] \div g) < y[1] * (x[2] \div g)
RLe(x, y) == ~RLt(y, x)
RFloor(x) == x[1] \div x[2]

RECURSIVE RSum(_)
RSum(s) == IF s = <<>> THEN RInt(0) ELSE RAdd(Head(s), RSum(Tail(s)))

\* an ndarray is held as an explicit tuple of its elements
Array(f) == SubSeq(f, 1, Len(f))

---------------------------------------------------------------------------
(* get_weight_and_index and get_weight_in_reciprocal_space                 *)

\* a / b for two Python ints.  The module runs under Python 2 only (basestring,
\* lines 532 and 574), where / on ints is the floor division; voxel_num_1d is
\* the int volume.shape[0].
python2_int_division(a, b) == RInt(a \div b)

\* line 52-56: pixel_position_1d / voxel_length, then += (voxel_num_1d - 1) / 2
convert_to_voxel_unit(pixel, voxel_length, voxel_num_1d) ==
    LET shift == python2_int_division(voxel_num_1d - 1, 2)
    IN  Array([a \in 1..3 |-> RAdd(RDiv(pixel[a], RInt(voxel_length)), shift)])

\* lines 70-96: the 8 corners, in the order the code fills indexes[:, 0..7, :]
CornerOffsets ==
    << <<0, 0, 0>>, <<0, 0, 1>>, <<0, 1, 0>>, <<0, 1, 1>>,
       <<1, 0, 0>>, <<1, 0, 1>>, <<1, 1, 0>>, <<1, 1, 1>> >>

\* the stencil of one pixel: lines 59-106
StencilOfBadTrunc(pixel, voxel_length, voxel_num_1d) ==
    LET x == convert_to_voxel_unit(pixel, voxel_length, voxel_num_1d)
        \* a cast that truncates toward zero instead of np.floor
        tmp_index == Array([a \in 1..3 |->
                         IF x[a][1] < 0 THEN -((-x[a][1]) \div x[a][2])
                                        ELSE x[a][1] \div x[a][2]])
        dfloor == Array([a \in 1..3 |-> RSub(x[a], RInt(tmp_index[a]))])
        dceiling == Array([a \in 1..3 |-> RSub(RInt(1), dfloor[a])])
        W(a, o) == IF o = 1 THEN dfloor[a] ELSE dceiling[a]
    IN  [indexes |-> Array([c \in 1..8 |->
                        << tmp_index[1] + CornerOffsets[c][1],
                           tmp_index[2] + CornerOffsets[c][2],
                           tmp_index[3] + CornerOffsets[c][3] >>]),
         weight  |-> Array([c \in 1..8 |->
                        RMul(RMul(W(1, CornerOffsets[c][1]), W(2, CornerOffsets[c][2])),
                             W(3, CornerOffsets[c][3]))])]

StencilOf(pixel, voxel_length, voxel_num_1d) ==
    LET x == convert_to_voxel_unit(pixel, voxel_length, voxel_num_1d)
        tmp_index == Array([a \in 1..3 |-> RFloor(x[a])])
        dfloor == Array([a \in 1..3 |-> RSub(x[a], RInt(tmp_index[a]))])
        dceiling == Array([a \in 1..3 |-> RSub(RInt(1), dfloor[a])])
    IN  [indexes |->
           << tmp_index,
              <<tmp_index[1], tmp_index[2], tmp_index[3] + 1>>,
              <<tmp_index[1], tmp_index[2] + 1, tmp_index[3]>>,
              <<tmp_index[1], tmp_index[2] + 1, tmp_index[3] + 1>>,
              <<tmp_index[1] + 1, tmp_index[2], tmp_index[3]>>,
              <<tmp_index[1] + 1, tmp_index[2], tmp_index[3] + 1>>,
              <<tmp_index[1] + 1, tmp_index[2] + 1, tmp_index[3]>>,
              <<tmp_index[1] + 1, tmp_index[2] + 1, tmp_index[3] + 1>> >>,
         weight |->
           << RMul(RMul(dceiling[1], dceiling[2]), dceiling[3]),
              RMul(RMul(dceiling[1], dceiling[2]), dfloor[3]),
              RMul(RMul(dceiling[1], dfloor[2]), dceiling[3]),
              RMul(RMul(dceiling[1], dfloor[2]), dfloor[3]),
              RMul(RMul(dfloor[1], dceiling[2]), dceiling[3]),
              RMul(RMul(dfloor[1], dceiling[2]), dfloor[3]),
              RMul(RMul(dfloor[1], dfloor[2]), dceiling[3]),
              RMul(RMul(dfloor[1], dfloor[2]), dfloor[3]) >>]

\* the pixel stack is a flat sequence of pixels (np.reshape keeps the order)
get_weight_and_index(pixel_position, voxel_length, voxel_num_1d) ==
    LET st == Array([p \in 1..Len(pixel_position) |->
                  StencilOf(pixel_position[p], voxel_length, voxel_num_1d)])
    IN  [indexes |-> Array([p \in 1..Len(pixel_position) |-> st[p].indexes]),
         weight  |-> Array([p \in 1..Len(pixel_position) |-> st[p].weight])]

get_weight_in_reciprocal_space(pixel_position, voxel_length, voxel_num_1d) ==
    LET shift == python2_int_division(voxel_num_1d - 1, 2)
        x == Array([p \in 1..Len(pixel_position) |-> Array([a \in 1..3 |->
                 RAdd(RDiv(pixel_position[p][a], RInt(voxel_length)), shift)])])
        tmp_index == Array([p \in 1..Len(pixel_position) |->
                         Array([a \in 1..3 |-> RFloor(x[p][a])])])
        dfloor == Array([p \in 1..Len(pixel_position) |-> Array([a \in 1..3 |->
                      RSub(x[p][a], RInt(tmp_index[p][a]))])])
        dceiling == Array([p \in 1..Len(pixel_position) |-> Array([a \in 1..3 |->
                        RSub(RInt(1), dfloor[p][a])])])
    IN  [indexes |-> Array([p \in 1..Len(pixel_position) |->
           << tmp_index[p],
              <<tmp_index[p][1], tmp_index[p][2], tmp_index[p][3] + 1>>,
              <<tmp_index[p][1], tmp_index[p][2] + 1, tmp_index[p][3]>>,
              <<tmp_index[p][1], tmp_index[p][2] + 1, tmp_index[p][3] + 1>>,
              <<tmp_index[p][1] + 1, tmp_index[p][2], tmp_index[p][3]>>,
              <<tmp_index[p][1] + 1, tmp_index[p][2], tmp_index[p][3] + 1>>,
              <<tmp_index[p][1] + 1, tmp_index[p][2] + 1, tmp_index[p][3]>>,
              <<tmp_index[p][1] + 1, tmp_index[p][2] + 1, tmp_index[p][3] + 1>> >>]),
         weight |-> Array([p \in 1..Len(pixel_position) |->
           << RMul(RMul(dceiling[p][1], dceiling[p][2]), dceiling[p][3]),
              RMul(RMul(dceiling[p][1], dceiling[p][2]), dfloor[p][3]),
              RMul(RMul(dceiling[p][1], dfloor[p][2]), dceiling[p][3]),
              RMul(RMul(dceiling[p][1], dfloor[p][2]), dfloor[p][3]),
              RMul(RMul(dfloor[p][1], dceiling[p][2]), dceiling[p][3]),
              RMul(RMul(dfloor[p][1], dceiling[p][2]), dfloor[p][3]),
              RMul(RMul(dfloor[p][1], dfloor[p][2]), dceiling[p][3]),
              RMul(RMul(dfloor[p][1], dfloor[p][2]), dfloor[p][3]) >>])]

\* the inputs of a stencil call
PixelGrid ==
    {<<RInt(x), RInt(y), RInt(z)>> :
        x \in -MaxPos..MaxPos, y \in -MaxPos..MaxPos, z \in -MaxPos..MaxPos}
VoxelLengths == 1..MaxVoxelLength

StencilInit ==
    /\ slicer = Idle /\ assembly = Idle /\ convert = Idle /\ sphere = Idle /\ detector = Idle
    /\ particle = Idle /\ mesh = Idle
    /\ \E pixel \in PixelGrid, vl \in VoxelLengths,
          n \in 1..(2 * MaxHalfNum + 1) :
           stencil = [pc |-> "call", pixel_position |-> <<pixel>>,
                      voxel_length |-> vl, voxel_num_1d |-> n]

CallGetWeightAndIndex ==
    /\ stencil.pc = "call"
    /\ stencil' = [pc |-> "done", fn |-> "get_weight_and_index",
                   pixel_position |-> stencil.pixel_position,
                   voxel_length |-> stencil.voxel_length,
                   voxel_num_1d |-> stencil.voxel_num_1d,
                   ret |-> get_weight_and_index(stencil.pixel_position,
                              stencil.voxel_length, stencil.voxel_num_1d)]
    /\ UNCHANGED NotStencil

CallGetWeightInReciprocalSpace ==
    /\ stencil.pc = "call"
    /\ stencil' = [pc |-> "done", fn |-> "get_weight_in_reciprocal_space",
                   pixel_position |-> stencil.pixel_position,
                   voxel_length |-> stencil.voxel_length,
                   voxel_num_1d |-> stencil.voxel_num_1d,
                   ret |-> get_weight_in_reciprocal_space(stencil.pixel_position,
                              stencil.voxel_length, stencil.voxel_num_1d)]
    /\ UNCHANGED NotStencil

SpecWeightsNext ==
    \/ CallGetWeightAndIndex
    \/ CallGetWeightInReciprocalSpace

SpecWeights == StencilInit /\ [][SpecWeightsNext]_vars

---------------------------------------------------------------------------
\* C1: after either stencil function returns, each of the 8 weights of every
\* pixel is non-negative and the 8 weights of every pixel sum to exactly 1.
C1_WeightsPartitionOfUnity ==
    stencil.pc = "done" =>
        \A p \in 1..Len(stencil.ret.weight) :
            /\ \A c \in 1..8 : RLe(RInt(0), stencil.ret.weight[p][c])
            /\ RSum(stencil.ret.weight[p]) = RInt(1)

\* a call returned for a pixel whose voxel coordinate is negative with a
\* non-zero fractional part on every axis (all 8 weights are then non-zero)
C1_Witness ==
    /\ stencil.pc = "done"
    /\ \A a \in 1..3 : stencil.ret.indexes[1][1][a] < 0
    /\ \A c \in 1..8 : RLt(RInt(0), stencil.ret.weight[1][c])


---------------------------------------------------------------------------
(* quaternion2rot3d, and the matrix algebra take_n_slice uses              *)

\* quaternion2rot3d with the sign of the q03 term of rotation[0, 1] flipped
quaternion2rot3d_bad_sign(quat) ==
    LET q01 == RMul(quat[1], quat[2])
        q02 == RMul(quat[1], quat[3])
        q03 == RMul(quat[1], quat[4])
        q11 == RMul(quat[2], quat[2])
        q12 == RMul(quat[2], quat[3])
        q13 == RMul(quat[2], quat[4])
        q22 == RMul(quat[3], quat[3])
        q23 == RMul(quat[3], quat[4])
        q33 == RMul(quat[4], quat[4])
        two == RInt(2)
        one == RInt(1)
    IN  << << RSub(one, RMul(two, RAdd(q22, q33))),
              RMul(two, RAdd(q12, q03)),
              RMul(two, RAdd(q13, q02)) >>,
           << RMul(two, RAdd(q12, q03)),
              RSub(one, RMul(two, RAdd(q11, q33))),
              RMul(two, RSub(q23, q01)) >>,
           << RMul(two, RSub(q13, q02)),
              RMul(two, RAdd(q23, q01)),
              RSub(one, RMul(two, RAdd(q11, q22))) >> >>

\* lines 772-794; quat[1..4] here is quat[0..3] there
quaternion2rot3d(quat) ==
    LET q01 == RMul(quat[1], quat[2])
        q02 == RMul(quat[1], quat[3])
        q03 == RMul(quat[1], quat[4])
        q11 == RMul(quat[2], quat[2])
        q12 == RMul(quat[2], quat[3])
        q13 == RMul(quat[2], quat[4])
        q22 == RMul(quat[3], quat[3])
        q23 == RMul(quat[3], quat[4])
        q33 == RMul(quat[4], quat[4])
        two == RInt(2)
        one == RInt(1)
    IN  << << RSub(one, RMul(two, RAdd(q22, q33))),
              RMul(two, RSub(q12, q03)),
              RMul(two, RAdd(q13, q02)) >>,
           << RMul(two, RAdd(q12, q03)),
              RSub(one, RMul(two, RAdd(q11, q33))),
              RMul(two, RSub(q23, q01)) >>,
           << RMul(two, RSub(q13, q02)),
              RMul(two, RAdd(q23, q01)),
              RSub(one, RMul(two, RAdd(q11, q22))) >> >>

Transpose(m) ==
    << <<m[1][1], m[2][1], m[3][1]>>,
       <<m[1][2], m[2][2], m[3][2]>>,
       <<m[1][3], m[2][3], m[3][3]>> >>

Det3(m) ==
    RAdd(RSub(RMul(m[1][1], RSub(RMul(m[2][2], m[3][3]), RMul(m[2][3], m[3][2]))),
              RMul(m[1][2], RSub(RMul(m[2][1], m[3][3]), RMul(m[2][3], m[3][1])))),
         RMul(m[1][3], RSub(RMul(m[2][1], m[3][2]), RMul(m[2][2], m[3][1]))))

\* np.linalg.inv of a 3x3 matrix: the adjugate over the determinant
Inv3(m) ==
    LET Nx(i) == (i % 3) + 1
        Cof(i, j) == RSub(RMul(m[Nx(i)][Nx(j)], m[Nx(Nx(i))][Nx(Nx(j))]),
                          RMul(m[Nx(i)][Nx(Nx(j))], m[Nx(Nx(i))][Nx(j)]))
        d == Det3(m)
    IN  Array([i \in 1..3 |-> Array([j \in 1..3 |-> RDiv(Cof(j, i), d)])])

\* line 25: np.dot(pixels_position, rot_mat.T), one row per pixel
rotate_pixels_in_reciprocal_space(rot_mat, pixels_position) ==
    LET rt == Transpose(rot_mat)
    IN  Array([p \in 1..Len(pixels_position) |-> Array([i \in 1..3 |->
            RAdd(RAdd(RMul(pixels_position[p][1], rt[1][i]),
                      RMul(pixels_position[p][2], rt[2][i])),
                 RMul(pixels_position[p][3], rt[3][i]))])])

---------------------------------------------------------------------------
(* take_one_slice and take_n_slice                                         *)

\* A volume is [n |-> N, data |-> a function on (0..N-1)^3]; np.reshape(volume,
\* N ** 3) lays it out row-major (line 207).
Voxels(n) == {<<i, j, k>> : i \in 0..(n - 1), j \in 0..(n - 1), k \in 0..(n - 1)}

volume_1d(volume) ==
    LET n == volume.n
    IN  [f \in 0..(n * n * n - 1) |->
            volume.data[<<f \div (n * n), (f \div n) % n, f % n>>]]

\* lines 200-216.  volume_1d[index_2d] is numpy integer-array indexing: an
\* index in -size..-1 counts from the end, an index outside -size..(size-1)
\* raises IndexError for the whole call.
take_one_slice(local_index, local_weight, volume, pixel_num) ==
    LET volume_num_1d == volume.n
        convertion_factor == <<volume_num_1d * volume_num_1d, volume_num_1d, 1>>
        index_2d == Array([p \in 1..pixel_num |-> Array([c \in 1..8 |->
                        local_index[p][c][1] * convertion_factor[1]
                        + local_index[p][c][2] * convertion_factor[2]
                        + local_index[p][c][3] * convertion_factor[3]])])
        size == volume_num_1d * volume_num_1d * volume_num_1d
        flat == volume_1d(volume)
        Take(f) == flat[IF f < 0 THEN f + size ELSE f]
    IN  IF \E p \in 1..pixel_num, c \in 1..8 :
               index_2d[p][c] < -size \/ index_2d[p][c] >= size
        THEN [raised |-> "IndexError"]
        ELSE [raised |-> "",
              data |-> Array([p \in 1..pixel_num |->
                  RSum(Array([c \in 1..8 |->
                      RMul(local_weight[p][c], RInt(Take(index_2d[p][c])))]))])]

\* the body of the loop of take_n_slice for one orientation: lines 242-258
SliceForOrientation(pixel_momentum, volume, voxel_length, quat, inverse) ==
    LET r0 == quaternion2rot3d(quat)
        rot_mat == IF inverse THEN Inv3(r0) ELSE r0
        rotated_pixel_position == rotate_pixels_in_reciprocal_space(rot_mat, pixel_momentum)
        iw == get_weight_and_index(rotated_pixel_position, voxel_length, volume.n)
    IN  take_one_slice(iw.indexes, iw.weight, volume, Len(pixel_momentum))

\* a store that also overwrites the slots before l
store_slice_up_to(slices_holder, l, one_slice) ==
    Array([k \in 1..Len(slices_holder) |->
        IF k <= l + 1 THEN one_slice ELSE slices_holder[k]])

\* line 254: slices_holder[l] = ... (l counts from 0, the sequence from 1)
store_slice(slices_holder, l, one_slice) ==
    [slices_holder EXCEPT ![l + 1] = one_slice]

\* lines 233-237: slice_num, and the holder
\* np.zeros((slice_num,) + tuple(pattern_shape))
take_n_slice_enter(call) ==
    [call EXCEPT !.pc = "loop",
                 !.l = 0,
                 !.slices_holder =
                     Array([k \in 1..Len(call.orientations) |->
                         Array([p \in 1..Len(call.pixel_momentum) |-> RInt(0)])])]

\* an iteration that keeps the rotated positions in the caller's array
take_n_slice_iteration_rotating_in_place(call) ==
    LET r0 == quaternion2rot3d(call.orientations[call.l + 1])
        rot_mat == IF call.inverse THEN Inv3(r0) ELSE r0
        one == SliceForOrientation(call.pixel_momentum, call.volume,
                   call.voxel_length, call.orientations[call.l + 1],
                   call.inverse)
    IN  IF one.raised # ""
        THEN [call EXCEPT !.pc = "raised", !.raised = one.raised]
        ELSE [call EXCEPT !.pixel_momentum =
                              rotate_pixels_in_reciprocal_space(rot_mat, call.pixel_momentum),
                          !.slices_holder =
                              store_slice(call.slices_holder, call.l, one.data),
                          !.l = call.l + 1]

\* lines 240-258: iteration l; an IndexError raised by take_one_slice leaves
\* the function
take_n_slice_iteration(call) ==
    LET one == SliceForOrientation(call.pixel_momentum, call.volume,
                   call.voxel_length, call.orientations[call.l + 1],
                   call.inverse)
    IN  IF one.raised # ""
        THEN [call EXCEPT !.pc = "raised", !.raised = one.raised]
        ELSE [call EXCEPT !.slices_holder =
                              store_slice(call.slices_holder, call.l, one.data),
                          !.l = call.l + 1]

\* line 263
take_n_slice_return(call) ==
    [call EXCEPT !.pc = "done", !.ret = call.slices_holder]

\* the whole call, from wherever it stands to its return or its exception
RECURSIVE take_n_slice(_)
take_n_slice(call) ==
    IF call.pc = "call" THEN take_n_slice(take_n_slice_enter(call))
    ELSE IF call.pc = "loop" /\ call.l < Len(call.orientations)
         THEN take_n_slice(take_n_slice_iteration(call))
    ELSE IF call.pc = "loop" THEN take_n_slice_return(call)
    ELSE call

TakeNSliceEnter ==
    /\ slicer.pc = "call"
    /\ slicer' = take_n_slice_enter(slicer)
    /\ UNCHANGED NotSlicer

TakeNSliceIteration ==
    /\ slicer.pc = "loop"
    /\ slicer.l < Len(slicer.orientations)
    /\ slicer' = take_n_slice_iteration(slicer)
    /\ UNCHANGED NotSlicer

TakeNSliceReturn ==
    /\ slicer.pc = "loop"
    /\ slicer.l = Len(slicer.orientations)
    /\ slicer' = take_n_slice_return(slicer)
    /\ UNCHANGED NotSlicer

TakeNSliceNext ==
    \/ TakeNSliceEnter
    \/ TakeNSliceIteration
    \/ TakeNSliceReturn

TakeNSliceCall(pixel_momentum, volume, voxel_length, orientations, inverse) ==
    [pc |-> "call", pixel_momentum |-> pixel_momentum, volume |-> volume,
     voxel_length |-> voxel_length, orientations |-> orientations,
     inverse |-> inverse, l |-> 0, slices_holder |-> <<>>, raised |-> "",
     ret |-> <<>>]

---------------------------------------------------------------------------
(* Sampling one pixel under one orientation: the volumes and orientations  *)

SingleVoxelVolume(n, v) ==
    [n |-> n, data |-> [u \in Voxels(n) |-> IF u = v THEN 1 ELSE 0]]

ConstantValue == 3      \* the value c of the constant volumes

QuatIdentity == <<RInt(1), RInt(0), RInt(0), RInt(0)>>
\* unit quaternions with rational components: the identity, a half turn about
\* x, a third of a turn about (1, 1, 1), and one whose matrix has ninths
SliceQuats ==
    { QuatIdentity,
      <<RInt(0), RInt(1), RInt(0), RInt(0)>>,
      <<Frac(1, 2), Frac(1, 2), Frac(1, 2), Frac(1, 2)>>,
      <<Frac(2, 3), Frac(1, 3), RInt(0), Frac(2, 3)>> }

SampleInit ==
    /\ stencil = Idle /\ assembly = Idle /\ convert = Idle /\ sphere = Idle /\ detector = Idle
    /\ particle = Idle /\ mesh = Idle
    /\ \/ \E k \in 1..MaxVolumeHalfNum, q \in SliceQuats, pixel \in PixelGrid,
             vl \in VoxelLengths, inverse \in BOOLEAN :
              slicer = TakeNSliceCall(<<pixel>>,
                           [n |-> 2 * k + 1,
                            data |-> [v \in Voxels(2 * k + 1) |-> ConstantValue]],
                           vl, <<q>>, inverse)
       \/ \E v \in Voxels(3), pixel \in PixelGrid, vl \in VoxelLengths :
              slicer = TakeNSliceCall(<<pixel>>, SingleVoxelVolume(3, v),
                                      vl, <<QuatIdentity>>, FALSE)

SpecSample == SampleInit /\ [][TakeNSliceNext]_vars

\* the voxel coordinate of pixel p under orientation l of the call in slicer
VoxelCoordinate(l, p) ==
    LET r0 == quaternion2rot3d(slicer.orientations[l])
        rot_mat == IF slicer.inverse THEN Inv3(r0) ELSE r0
        rotated == rotate_pixels_in_reciprocal_space(rot_mat, slicer.pixel_momentum)
    IN  convert_to_voxel_unit(rotated[p], slicer.voxel_length, slicer.volume.n)

\* C2: when take_n_slice has ended on a constant volume (every voxel = c) and
\* every pixel's voxel coordinate lies in [0, N-1] on every axis (N-1
\* included), it has returned, and every sampled value is exactly c.
C2_ConstantVolumeSampledExactly ==
    ( /\ slicer.pc \in {"done", "raised"}
      /\ \A v \in Voxels(slicer.volume.n) : slicer.volume.data[v] = ConstantValue
      /\ \A l \in 1..Len(slicer.orientations), p \in 1..Len(slicer.pixel_momentum) :
             \A a \in 1..3 :
                 /\ RLe(RInt(0), VoxelCoordinate(l, p)[a])
                 /\ RLe(VoxelCoordinate(l, p)[a], RInt(slicer.volume.n - 1)) )
    => /\ slicer.pc = "done"
       /\ \A l \in 1..Len(slicer.orientations), p \in 1..Len(slicer.pixel_momentum) :
              slicer.ret[l][p] = RInt(ConstantValue)

\* the pixel position whose voxel coordinate is x (a rational triple), N = 3
PixelAt(x, voxel_length) ==
    Array([a \in 1..3 |-> RMul(RSub(x[a], RInt(1)), RInt(voxel_length))])

\* C3: on a 3x3x3 volume with one voxel v set to 1, with no rotation, the
\* sample at v's centre is 1 and the sample at the midpoint between v and an
\* axis-adjacent voxel is 1/2, for each of the 27 positions of v.
C3_SingleVoxelCentreAndMidpoint ==
    \A v \in Voxels(3) :
        ( /\ slicer.pc \in {"done", "raised"}
          /\ slicer.volume = SingleVoxelVolume(3, v)
          /\ slicer.orientations = <<QuatIdentity>> )
        => /\ slicer.pixel_momentum =
                  <<PixelAt(<<RInt(v[1]), RInt(v[2]), RInt(v[3])>>, slicer.voxel_length)>>
              => slicer.pc = "done" /\ slicer.ret[1][1] = RInt(1)
           /\ \A u \in Voxels(3) :
                  ( /\ \E a \in 1..3 : /\ Abs(u[a] - v[a]) = 1
                                        /\ \A b \in (1..3) \ {a} : u[b] = v[b]
                    /\ slicer.pixel_momentum =
                           <<PixelAt(<<Frac(u[1] + v[1], 2), Frac(u[2] + v[2], 2),
                                       Frac(u[3] + v[3], 2)>>,
                                     slicer.voxel_length)>> )
                  => slicer.pc = "done" /\ slicer.ret[1][1] = Frac(1, 2)

---------------------------------------------------------------------------
(* assemble_image_stack                                                    *)

MaxPanels == 2          \* an image stack has 1..MaxPanels panels
MaxPanelSide == 3       \* a panel has 1..MaxPanelSide pixels along x and along y
MaxOffset == 1          \* an index map shifts its panel by 0..MaxOffset
MaxPanelBase == 2       \* the first pixel value of a stack is in 1..MaxPanelBase

SetMax(S) == CHOOSE m \in S : \A k \in S : k <= m

\* An image is [shape |-> <<rows, columns>>, data |-> rows of columns];
\* np.zeros((rows, columns)) raises ValueError when a dimension is negative.
Zeros(rows, columns) ==
    [shape |-> <<rows, columns>>,
     data  |-> Array([r \in 1..rows |-> Array([m \in 1..columns |-> 0])])]

\* the triples (i, j, k) of one panel's index array index_map[l, :, :, :]
IndexTriples(idx) ==
    {<<i, j, k>> : i \in 1..Len(idx), j \in 1..Len(idx[1]), k \in 1..2}

\* line 488, image[idx] = value with idx an integer array of shape (X, Y, 2):
\* numpy indexes the FIRST axis of image with every integer of idx, so the
\* indexing result has shape (X, Y, 2, columns).  The exceptions it can raise:
\* IndexError when an integer of idx is outside -rows..rows-1, ValueError when
\* value (X, Y) does not broadcast to (X, Y, 2, columns).
ScatterErrors(image, idx, value) ==
    LET rows == image.shape[1]
        columns == image.shape[2]
    IN  (IF \E t \in IndexTriples(idx) :
                \/ idx[t[1]][t[2]][t[3]] < -rows
                \/ idx[t[1]][t[2]][t[3]] >= rows
         THEN {"IndexError"} ELSE {})
        \cup
        (IF Len(value) \in {1, 2} /\ Len(value[1]) \in {1, columns}
         THEN {} ELSE {"ValueError"})

\* the assignment itself, in iteration order: row idx[i, j, k] of image becomes
\* the broadcast value[k or 0, :], the last write to a row staying
ScatterRows(image, idx, value) ==
    LET rows == image.shape[1]
        columns == image.shape[2]
        Row(t) == LET v == idx[t[1]][t[2]][t[3]] IN IF v < 0 THEN v + rows ELSE v
        Pos(t) == ((t[1] - 1) * Len(idx[1]) + (t[2] - 1)) * 2 + t[3]
        Hits(r) == {t \in IndexTriples(idx) : Row(t) = r}
        Last(r) == CHOOSE t \in Hits(r) : \A u \in Hits(r) : Pos(u) <= Pos(t)
    IN  [shape |-> image.shape,
         data  |-> Array([r \in 1..rows |->
                     IF Hits(r - 1) = {} THEN image.data[r]
                     ELSE Array([m \in 1..columns |->
                              value[IF Len(value) = 1 THEN 1 ELSE Last(r - 1)[3]]
                                   [IF Len(value[1]) = 1 THEN 1 ELSE m]])])]

\* lines 487-488: the loop over the panels, from panel l on
RECURSIVE ScatterPanels(_, _, _, _)
ScatterPanels(image, image_stack, index_map, l) ==
    IF l > Len(index_map) THEN [raised |-> {}, image |-> image]
    ELSE IF ScatterErrors(image, index_map[l], image_stack[l]) # {}
         THEN [raised |-> ScatterErrors(image, index_map[l], image_stack[l]),
               image |-> image]
         ELSE ScatterPanels(ScatterRows(image, index_map[l], image_stack[l]),
                            image_stack, index_map, l + 1)

\* lines 482-490.  The result: the exceptions the call can end in (none when
\* it returns) and the image it returns.
assemble_image_stack(image_stack, index_map) ==
    LET index_max_x == SetMax({index_map[l][i][j][1] : l \in 1..Len(index_map),
                                  i \in 1..Len(index_map[1]),
                                  j \in 1..Len(index_map[1][1])})
        index_max_y == SetMax({index_map[l][i][j][2] : l \in 1..Len(index_map),
                                  i \in 1..Len(index_map[1]),
                                  j \in 1..Len(index_map[1][1])})
    IN  IF index_max_x < 0 \/ index_max_y < 0
        THEN [raised |-> {"ValueError"}, image |-> Zeros(0, 0)]
        ELSE ScatterPanels(Zeros(index_max_x, index_max_y), image_stack, index_map, 1)

\* the index map that puts pixel (i, j) of panel l at (i + ox, j + oy), the
\* panels side by side along x when tiled, on top of each other when not;
\* indices are 0-based as in the code
OffsetMap(panels, X, Y, ox, oy, tiled) ==
    Array([l \in 1..panels |-> Array([i \in 1..X |-> Array([j \in 1..Y |->
        <<(i - 1) + ox + (IF tiled THEN (l - 1) * X ELSE 0), (j - 1) + oy>>])])])

\* panel values base, base + 1, ... in storage order: all different, none 0
PanelStack(panels, X, Y, base) ==
    Array([l \in 1..panels |-> Array([i \in 1..X |-> Array([j \in 1..Y |->
        base + ((l - 1) * X + (i - 1)) * Y + (j - 1)])])])

AssembleInit ==
    /\ stencil = Idle /\ slicer = Idle /\ convert = Idle /\ sphere = Idle /\ detector = Idle
    /\ particle = Idle /\ mesh = Idle
    /\ \E panels \in 1..MaxPanels, X \in 1..MaxPanelSide, Y \in 1..MaxPanelSide,
          ox \in 0..MaxOffset, oy \in 0..MaxOffset, tiled \in BOOLEAN,
          base \in 1..MaxPanelBase :
           assembly = [pc |-> "call", fn |-> "assemble_image_stack",
                       image_stack |-> PanelStack(panels, X, Y, base),
                       index_map |-> OffsetMap(panels, X, Y, ox, oy, tiled),
                       raised |-> "", ret |-> Zeros(0, 0)]

\* one call of assemble_image_stack: it returns the image, or ends in one of
\* the exceptions the scatter can raise
CallAssembleImageStack ==
    /\ assembly.pc = "call" /\ assembly.fn = "assemble_image_stack"
    /\ LET out == assemble_image_stack(assembly.image_stack, assembly.index_map)
       IN  IF out.raised = {}
           THEN assembly' = [assembly EXCEPT !.pc = "done", !.ret = out.image]
           ELSE \E e \in out.raised :
                    assembly' = [assembly EXCEPT !.pc = "raised", !.raised = e]
    /\ UNCHANGED NotAssembly

SpecAssemble == AssembleInit /\ [][CallAssembleImageStack]_vars

\* C4: when assemble_image_stack has ended on a single panel of shape (X, Y)
\* whose index map is the identity, it has returned an image of shape (X, Y)
\* whose pixel (i, j) is the panel's pixel (i, j).
C4_IdentityMapReproducesPanel ==
    ( /\ assembly.pc \in {"done", "raised"}
      /\ Len(assembly.image_stack) = 1
      /\ assembly.index_map =
             OffsetMap(1, Len(assembly.image_stack[1]),
                       Len(assembly.image_stack[1][1]), 0, 0, FALSE) )
    => /\ assembly.pc = "done"
       /\ assembly.ret.shape =
              <<Len(assembly.image_stack[1]), Len(assembly.image_stack[1][1])>>
       /\ assembly.ret.data = assembly.image_stack[1]

---------------------------------------------------------------------------
(* The rotation converters                                                 *)

MaxQuatNum == 2         \* a unit quaternion is <<a, b, c, d>> / n with |a|..|d| <= MaxQuatNum
MaxQuatDen == 3         \* ... and n in 1..MaxQuatDen
MaxTrig == 4            \* cos(theta/2), sin(theta/2) are c/d, s/d with |c|, |s| <= MaxTrig
MaxTrigDen == 5         \* ... and d in 1..MaxTrigDen
MaxAxis == 2            \* an axis vector has integer components in -MaxAxis..MaxAxis

\* np.sqrt, exact on the square of a rational (the floor of each part otherwise)
ISqrt(n) == CHOOSE r \in 0..n : r * r <= n /\ (r + 1) * (r + 1) > n
RSqrt(x) == Frac(ISqrt(x[1]), ISqrt(x[2]))

\* An angle theta is held as the point <<cos(theta/2), sin(theta/2)>>, so that
\* np.cos and np.sin of theta and of theta/2 are rational.
CosOf(theta) == RSub(RMul(theta[1], theta[1]), RMul(theta[2], theta[2]))
SinOf(theta) == RMul(RInt(2), RMul(theta[1], theta[2]))
ZeroAngle == <<RInt(1), RInt(0)>>

\* An axis argument: a string (name) or an ndarray (value, dtype)
StrAxis(s) == [kind |-> "str", name |-> s, value |-> <<>>, dtype |-> ""]
NdAxis(v, dtype) == [kind |-> "ndarray", name |-> "", value |-> v, dtype |-> dtype]

\* the float values an axis array holds (nothing for an axis name)
ValuesOf(axis) ==
    IF axis.kind = "str" THEN <<>>
    ELSE Array([a \in 1..Len(axis.value) |-> RInt(axis.value[a])])

\* str.lower on the axis names of the model
Lower(s) ==
    CASE s = "X" -> "x"
      [] s = "Y" -> "y"
      [] s = "Z" -> "z"
      [] s = "W" -> "w"
      [] s = "XY" -> "xy"
      [] OTHER -> s

\* lines 532-543 and 574-585: the axis as an array, or ValueError
axis_argument(axis) ==
    IF axis.kind = "str"
    THEN CASE Lower(axis.name) = "x" ->
                  [raised |-> "", value |-> <<1, 0, 0>>, dtype |-> "float"]
           [] Lower(axis.name) = "y" ->
                  [raised |-> "", value |-> <<0, 1, 0>>, dtype |-> "float"]
           [] Lower(axis.name) = "z" ->
                  [raised |-> "", value |-> <<0, 0, 1>>, dtype |-> "float"]
           [] OTHER -> [raised |-> "ValueError", value |-> <<>>, dtype |-> ""]
    ELSE IF Len(axis.value) # 3
         THEN [raised |-> "ValueError", value |-> <<>>, dtype |-> ""]
         ELSE [raised |-> "", value |-> axis.value, dtype |-> axis.dtype]

\* axis / np.linalg.norm(axis), for an axis with integer components
Normalized(v) ==
    LET norm == RSqrt(RInt(v[1] * v[1] + v[2] * v[2] + v[3] * v[3]))
    IN  Array([a \in 1..3 |-> RDiv(RInt(v[a]), norm)])

\* lines 546-561, for the normalized axis <<a, b, c>>
rot3d_of(n, cos_theta, sin_theta) ==
    LET bracket == RSub(RInt(1), cos_theta)
        br == Array([a \in 1..3 |-> RMul(n[a], bracket)])
        st == Array([a \in 1..3 |-> RMul(n[a], sin_theta)])
    IN  << << RAdd(RMul(n[1], br[1]), cos_theta),
              RSub(RMul(n[1], br[2]), st[3]),
              RAdd(RMul(n[1], br[3]), st[2]) >>,
           << RAdd(RMul(n[2], br[1]), st[3]),
              RAdd(RMul(n[2], br[2]), cos_theta),
              RSub(RMul(n[2], br[3]), st[1]) >>,
           << RSub(RMul(n[3], br[1]), st[2]),
              RAdd(RMul(n[3], br[2]), st[1]),
              RAdd(RMul(n[3], br[3]), cos_theta) >> >>

\* lines 523-562.  astype(float) copies, so the caller's array is not touched.
\* axis_after is what the caller's array holds when the call has ended.
angle_axis_to_rot3d(axis, theta) ==
    LET arg == axis_argument(axis)
    IN  IF arg.raised # ""
        THEN [raised |-> arg.raised, ret |-> <<>>, axis_after |-> ValuesOf(axis)]
        ELSE [raised |-> "",
              ret |-> rot3d_of(Normalized(arg.value), CosOf(theta), SinOf(theta)),
              axis_after |-> ValuesOf(axis)]

\* lines 588-590, for the normalized axis n
quat_of(n, cos_angle, sin_angle) ==
    <<cos_angle, RMul(sin_angle, n[1]), RMul(sin_angle, n[2]), RMul(sin_angle, n[3])>>

\* lines 565-592.  Line 586 divides the axis array in place: on an integer
\* array numpy refuses to store the float64 quotient (TypeError); on a float
\* array passed by the caller the caller's array is normalized too.
angle_axis_to_quaternion(axis, theta) ==
    LET arg == axis_argument(axis)
    IN  IF arg.raised # ""
        THEN [raised |-> arg.raised, ret |-> <<>>, axis_after |-> ValuesOf(axis)]
        ELSE IF arg.dtype = "int"
        THEN [raised |-> "TypeError", ret |-> <<>>, axis_after |-> ValuesOf(axis)]
        ELSE [raised |-> "",
              ret |-> quat_of(Normalized(arg.value), theta[1], theta[2]),
              axis_after |-> IF axis.kind = "str" THEN ValuesOf(axis)
                             ELSE Normalized(arg.value)]


\* the same without the branch for a zero angle and without the division
quaternion_to_angle_axis_no_eps(quaternion) ==
    LET cos_ha == quaternion[1]
        sin_ha == RSqrt(RSub(RInt(1), RMul(cos_ha, cos_ha)))
    IN  [theta |-> <<cos_ha, sin_ha>>,
         axis  |-> Array([a \in 1..3 |-> quaternion[a + 1]])]

\* lines 692-706.  ha = arccos(quaternion[0]) lies in [0, pi], so sin(ha) is
\* the non-negative root of 1 - quaternion[0]^2; theta = 2 * ha is below
\* np.finfo(float).eps only when quaternion[0] is 1.
quaternion_to_angle_axis(quaternion) ==
    LET cos_ha == quaternion[1]
        sin_ha == RSqrt(RSub(RInt(1), RMul(cos_ha, cos_ha)))
    IN  IF cos_ha = RInt(1)
        THEN [theta |-> ZeroAngle, axis |-> <<RInt(1), RInt(0), RInt(0)>>]
        ELSE [theta |-> <<cos_ha, sin_ha>>,
              axis  |-> Array([a \in 1..3 |-> RDiv(quaternion[a + 1], sin_ha)])]

\* lines 732-755: the quaternion of one branch, for the divisor S
branch_quat(r, branch, S) ==
    LET quarter == RMul(Frac(1, 4), S)
    IN  CASE branch = "tr" ->
               << quarter, RDiv(RSub(r[3][2], r[2][3]), S),
                  RDiv(RSub(r[1][3], r[3][1]), S), RDiv(RSub(r[2][1], r[1][2]), S) >>
          [] branch = "r00" ->
               << RDiv(RSub(r[3][2], r[2][3]), S), quarter,
                  RDiv(RAdd(r[1][2], r[2][1]), S), RDiv(RAdd(r[1][3], r[3][1]), S) >>
          [] branch = "r11" ->
               << RDiv(RSub(r[1][3], r[3][1]), S), RDiv(RAdd(r[1][2], r[2][1]), S),
                  quarter, RDiv(RAdd(r[2][3], r[3][2]), S) >>
          [] OTHER ->
               << RDiv(RSub(r[2][1], r[1][2]), S), RDiv(RAdd(r[1][3], r[3][1]), S),
                  RDiv(RAdd(r[2][3], r[3][2]), S), quarter >>

\* lines 732, 738, 744, 750: the branch taken for the matrix r
branch_of(r) ==
    IF RLt(RInt(0), RAdd(RAdd(r[1][1], r[2][2]), r[3][3])) THEN "tr"
    ELSE IF RLt(r[2][2], r[1][1]) /\ RLt(r[3][3], r[1][1]) THEN "r00"
    ELSE IF RLt(r[3][3], r[2][2]) THEN "r11"
    ELSE "r22"

\* lines 733, 739, 745, 751: the divisor S of a branch
branch_S(r, branch) ==
    RMul(RInt(2), RSqrt(
        CASE branch = "tr"  -> RAdd(RAdd(RAdd(r[1][1], r[2][2]), r[3][3]), RInt(1))
          [] branch = "r00" -> RSub(RSub(RAdd(RInt(1), r[1][1]), r[2][2]), r[3][3])
          [] branch = "r11" -> RSub(RSub(RAdd(RInt(1), r[2][2]), r[1][1]), r[3][3])
          [] OTHER          -> RSub(RSub(RAdd(RInt(1), r[3][3]), r[1][1]), r[2][2])))

\* the same as rotmat_to_quaternion, always through the trace branch
rotmat_to_quaternion_trace_only(rotmat) ==
    [quat   |-> branch_quat(rotmat, "tr", branch_S(rotmat, "tr")),
     S      |-> branch_S(rotmat, "tr"),
     branch |-> "tr"]

\* lines 709-757; the result also records the branch and its divisor
rotmat_to_quaternion(rotmat) ==
    [quat   |-> branch_quat(rotmat, branch_of(rotmat), branch_S(rotmat, branch_of(rotmat))),
     S      |-> branch_S(rotmat, branch_of(rotmat)),
     branch |-> branch_of(rotmat)]


\* The inputs of the converters

UnitQuats ==
    {<<Frac(t[1], t[5]), Frac(t[2], t[5]), Frac(t[3], t[5]), Frac(t[4], t[5])>> :
        t \in {u \in (-MaxQuatNum..MaxQuatNum) \X (-MaxQuatNum..MaxQuatNum)
                      \X (-MaxQuatNum..MaxQuatNum) \X (-MaxQuatNum..MaxQuatNum)
                      \X (1..MaxQuatDen) :
                  u[1] * u[1] + u[2] * u[2] + u[3] * u[3] + u[4] * u[4] = u[5] * u[5]}}

Thetas ==
    {<<Frac(t[1], t[3]), Frac(t[2], t[3])>> :
        t \in {u \in (-MaxTrig..MaxTrig) \X (-MaxTrig..MaxTrig) \X (1..MaxTrigDen) :
                  u[1] * u[1] + u[2] * u[2] = u[3] * u[3]}}

\* axis names; non-zero axis vectors whose norm is an integer, and vectors
\* whose length is not 3
AxisArguments ==
    {StrAxis(s) : s \in {"x", "X", "y", "Y", "z", "Z", "w", "W", "xy", ""}}
    \cup {NdAxis(v, dtype) :
              v \in {u \in (-MaxAxis..MaxAxis) \X (-MaxAxis..MaxAxis)
                            \X (-MaxAxis..MaxAxis) :
                        /\ u # <<0, 0, 0>>
                        /\ ISqrt(u[1] * u[1] + u[2] * u[2] + u[3] * u[3])
                               * ISqrt(u[1] * u[1] + u[2] * u[2] + u[3] * u[3])
                           = u[1] * u[1] + u[2] * u[2] + u[3] * u[3]}
                     \cup {<<>>, <<1>>, <<1, 0>>, <<1, 0, 0, 0>>},
              dtype \in {"float", "int"}}

ConvertCall(fn, axis, theta, quat) ==
    [pc |-> "call", fn |-> fn, axis |-> axis, theta |-> theta, quat |-> quat,
     rotmat |-> <<>>, ret |-> <<>>, raised |-> "", axis_after |-> ValuesOf(axis),
     S |-> RInt(0), branch |-> ""]

ConvertInit ==
    /\ stencil = Idle /\ slicer = Idle /\ assembly = Idle /\ sphere = Idle /\ detector = Idle
    /\ particle = Idle /\ mesh = Idle
    /\ \/ \E fn \in {"angle_axis_to_rot3d", "angle_axis_to_quaternion"},
             axis \in AxisArguments, theta \in Thetas :
              convert = ConvertCall(fn, axis, theta, <<>>)
       \/ \E quat \in UnitQuats :
              convert = ConvertCall("quaternion2rot3d", StrAxis(""), ZeroAngle, quat)

CallAngleAxisToRot3d ==
    /\ convert.pc = "call" /\ convert.fn = "angle_axis_to_rot3d"
    /\ LET out == angle_axis_to_rot3d(convert.axis, convert.theta)
       IN  convert' = [convert EXCEPT
                          !.pc = IF out.raised = "" THEN "done" ELSE "raised",
                          !.raised = out.raised,
                          !.ret = out.ret,
                          !.axis_after = out.axis_after]
    /\ UNCHANGED NotConvert

CallAngleAxisToQuaternion ==
    /\ convert.pc = "call" /\ convert.fn = "angle_axis_to_quaternion"
    /\ LET out == angle_axis_to_quaternion(convert.axis, convert.theta)
       IN  convert' = [convert EXCEPT
                          !.pc = IF out.raised = "" THEN "done" ELSE "raised",
                          !.raised = out.raised,
                          !.ret = out.ret,
                          !.axis_after = out.axis_after]
    /\ UNCHANGED NotConvert

CallQuaternion2Rot3d ==
    /\ convert.pc = "call" /\ convert.fn = "quaternion2rot3d"
    /\ convert' = [convert EXCEPT !.pc = "done", !.ret = quaternion2rot3d(convert.quat)]
    /\ UNCHANGED NotConvert

\* rotmat_to_quaternion called on a matrix that one of the two matrix
\* builders has returned
CallRotmatToQuaternion ==
    /\ convert.pc = "done"
    /\ convert.fn \in {"quaternion2rot3d", "angle_axis_to_rot3d"}
    /\ LET out == rotmat_to_quaternion(convert.ret)
       IN  convert' = [convert EXCEPT
                          !.fn = "rotmat_to_quaternion",
                          !.rotmat = convert.ret,
                          !.ret = out.quat,
                          !.S = out.S,
                          !.branch = out.branch]
    /\ UNCHANGED NotConvert

\* quaternion_to_angle_axis called on a quaternion that angle_axis_to_quaternion
\* has returned (1 - quaternion[0]^2 is then the square of a rational), except
\* quaternion[0] = -1, where float64 divides by sin(pi) # 0
CallQuaternionToAngleAxis ==
    /\ convert.pc = "done"
    /\ convert.fn = "angle_axis_to_quaternion"
    /\ convert.ret[1] # RInt(-1)
    /\ convert' = [convert EXCEPT
                      !.fn = "quaternion_to_angle_axis",
                      !.quat = convert.ret,
                      !.ret = quaternion_to_angle_axis(convert.ret)]
    /\ UNCHANGED NotConvert

ConvertNext ==
    \/ CallAngleAxisToRot3d
    \/ CallAngleAxisToQuaternion
    \/ CallQuaternion2Rot3d
    \/ CallRotmatToQuaternion
    \/ CallQuaternionToAngleAxis

SpecConvert == ConvertInit /\ [][ConvertNext]_vars


---------------------------------------------------------------------------
MatMul(a, b) ==
    Array([i \in 1..3 |-> Array([j \in 1..3 |->
        RAdd(RAdd(RMul(a[i][1], b[1][j]), RMul(a[i][2], b[2][j])),
             RMul(a[i][3], b[3][j]))])])

QuatNeg(q) == <<RNeg(q[1]), RNeg(q[2]), RNeg(q[3]), RNeg(q[4])>>

\* C5: whenever rotmat_to_quaternion has been applied to quaternion2rot3d(q)
\* for a unit quaternion q, its result is q or -q, whichever of the four
\* branches it took; and the divisor S of the branch taken is never zero.
C5_RoundTripUpToSign ==
    convert.fn = "rotmat_to_quaternion" =>
        /\ convert.S # RInt(0)
        /\ convert.quat # <<>> =>
               \/ convert.ret = convert.quat
               \/ convert.ret = QuatNeg(convert.quat)

\* the round trip went through the last branch (r22 largest) and came back
\* with the opposite sign
C5_Witness ==
    /\ convert.fn = "rotmat_to_quaternion"
    /\ convert.quat # <<>>
    /\ convert.branch = "r22"
    /\ convert.ret = QuatNeg(convert.quat)
    /\ convert.ret # convert.quat

\* C6: every matrix R returned by angle_axis_to_rot3d (non-zero axis) or by
\* quaternion2rot3d (unit quaternion) satisfies R^T R = I and det R = +1.
C6_RotationMatricesOrthonormal ==
    ( /\ convert.pc = "done"
      /\ convert.fn \in {"angle_axis_to_rot3d", "quaternion2rot3d"} )
    => /\ MatMul(Transpose(convert.ret), convert.ret) =
              << <<RInt(1), RInt(0), RInt(0)>>,
                 <<RInt(0), RInt(1), RInt(0)>>,
                 <<RInt(0), RInt(0), RInt(1)>> >>
       /\ Det3(convert.ret) = RInt(1)

\* angle_axis_to_rot3d returned for an axis array off the coordinate axes
\* (it had to be normalized) and an angle with non-zero sine and cosine
C6_Witness ==
    /\ convert.pc = "done"
    /\ convert.fn = "angle_axis_to_rot3d"
    /\ convert.axis = NdAxis(<<1, -2, 2>>, "int")
    /\ CosOf(convert.theta) # RInt(0)
    /\ SinOf(convert.theta) # RInt(0)

\* C8: angle_axis_to_quaternion('x', 0) returns [1, 0, 0, 0], and
\* quaternion_to_angle_axis([1, 0, 0, 0]) returns the angle 0 with the axis
\* [1, 0, 0].
C8_IdentityRotation ==
    /\ ( /\ convert.pc = "done"
         /\ convert.fn = "angle_axis_to_quaternion"
         /\ convert.axis = StrAxis("x")
         /\ convert.theta = ZeroAngle )
       => convert.ret = QuatIdentity
    /\ ( /\ convert.fn = "quaternion_to_angle_axis"
         /\ convert.quat = QuatIdentity )
       => /\ convert.ret.theta = ZeroAngle
          /\ convert.ret.axis = <<RInt(1), RInt(0), RInt(0)>>

\* quaternion_to_angle_axis returned for the quaternion that
\* angle_axis_to_quaternion('x', 0) had returned
C8_Witness ==
    /\ convert.fn = "quaternion_to_angle_axis"
    /\ convert.axis = StrAxis("x")
    /\ convert.theta = ZeroAngle
    /\ convert.quat = QuatIdentity

\* C9: a call of angle_axis_to_rot3d or angle_axis_to_quaternion ends in
\* ValueError exactly when the axis is a string other than x, y, z (any case)
\* or a vector whose length is not 3; for every other axis it returns a result
\* and raises nothing.
C9_ValueErrorExactlyForBadAxis ==
    ( /\ convert.pc \in {"done", "raised"}
      /\ convert.fn \in {"angle_axis_to_rot3d", "angle_axis_to_quaternion"} )
    => IF \/ /\ convert.axis.kind = "str"
             /\ Lower(convert.axis.name) \notin {"x", "y", "z"}
          \/ /\ convert.axis.kind = "ndarray"
             /\ Len(convert.axis.value) # 3
       THEN convert.pc = "raised" /\ convert.raised = "ValueError"
       ELSE convert.pc = "done" /\ convert.raised = ""


---------------------------------------------------------------------------
(* points_on_2sphere, in fixed point                                       *)

\* FP: a float of points_on_2sphere is the integer floor(value * FPScale).
\* For every num_pts up to 13 the passes of this fixed-point sweep write the
\* same number of points, pass by pass, as the float64 sweep.
FPScale == 10000
PiFP == 31416

MaxNumPts == 8          \* points_on_2sphere is called with num_pts in 1..MaxNumPts
LargeNumPts == 35       \* and with this one, whose passes never settle
max_iter == 1000

MulFP(a, b) ==
    \* x and y bind the operands, so that each is evaluated once
    CHOOSE p \in { (x \div FPScale) * y + ((x % FPScale) * y) \div FPScale :
                      x \in {a}, y \in {b} } : TRUE
\* a division by zero gives a quotient above every angle
DivFP(a, b) == IF b = 0 THEN 1000000000 ELSE (a * FPScale) \div b

\* np.sin on [0, pi]: the Taylor polynomial up to x^13 of the reduced argument
SinFP(x) ==
    LET y  == IF x > PiFP \div 2 THEN PiFP - x ELSE x
        y2 == MulFP(y, y)
        t3 == MulFP(y, y2) \div 6
        t5 == MulFP(t3, y2) \div 20
        t7 == MulFP(t5, y2) \div 42
        t9 == MulFP(t7, y2) \div 72
        t11 == MulFP(t9, y2) \div 110
        t13 == MulFP(t11, y2) \div 156
    IN  y - t3 + t5 - t7 + t9 - t11 + t13

\* np.sin and np.cos on [0, 2 pi]
CosHalfTurn(x) ==
    IF x <= PiFP \div 2 THEN SinFP(x + PiFP \div 2) ELSE -SinFP(x - PiFP \div 2)
CosFull(x) == IF x > PiFP THEN CosHalfTurn(2 * PiFP - x) ELSE CosHalfTurn(x)

\* np.exp(np.log(x) / 3): the largest c with c^3 <= x, by bisection
RECURSIVE CbrtBetween(_, _, _)
CbrtBetween(x, lo, hi) ==
    IF lo >= hi THEN lo
    ELSE LET m == (lo + hi + 1) \div 2
         IN  IF MulFP(MulFP(m, m), m) <= x
             THEN CbrtBetween(x, m, hi)
             ELSE CbrtBetween(x, lo, m - 1)
CbrtFP(x) == CbrtBetween(x, 0, 4 * FPScale)

\* a buffer of half the rows
BufferRowsHalved(num_pts) == num_pts
\* line 828: the rows of the buffer
BufferRows(num_pts) == 2 * num_pts

\* a sweep that starts with no step at all
initial_delta_zero(num_pts) == 0

\* lines 829-832: surface_area = 4 * pi^2 / 2, delta = cbrt(surface_area / num_pts)
initial_delta(num_pts) == CbrtFP((2 * MulFP(PiFP, PiFP)) \div num_pts)

\* line 850: the quaternion of the angles w1, w2, w3
point_of(w1, w2, w3) ==
    << CosFull(w1),
       MulFP(SinFP(w1), CosFull(w2)),
       MulFP(MulFP(SinFP(w1), SinFP(w2)), CosFull(w3)),
       MulFP(MulFP(SinFP(w1), SinFP(w2)),
             IF w3 > PiFP THEN -SinFP(2 * PiFP - w3) ELSE SinFP(w3)) >>

Points2SphereCall(num_pts) ==
    [pc |-> "call", fn |-> "points_on_2sphere", num_pts |-> num_pts,
     points |-> <<>>, written_in |-> <<>>, delta |-> 0, iteration |-> 0, ind |-> 0,
     delta_w1 |-> 0, w1 |-> 0, delta_w2 |-> 0, w2 |-> 0, delta_w3 |-> 0, w3 |-> 0,
     raised |-> "", ret |-> <<>>]

\* lines 828-835.  written_in[r] is the pass (the value of iteration) in which
\* row r of the buffer was last written, -1 for a row never written.
Points2SphereEnter ==
    /\ sphere.pc = "call" /\ sphere.fn = "points_on_2sphere"
    /\ sphere' = [sphere EXCEPT
                     !.pc = "while",
                     !.points = Array([r \in 1..BufferRows(sphere.num_pts) |-> <<0, 0, 0, 0>>]),
                     !.written_in = Array([r \in 1..BufferRows(sphere.num_pts) |-> -1]),
                     !.delta = initial_delta(sphere.num_pts),
                     !.iteration = 0,
                     !.ind = 0]
    /\ UNCHANGED NotSphere

\* lines 836-839: the test of the outer loop holds, a pass begins
Points2SpherePass ==
    /\ sphere.pc = "while"
    /\ sphere.ind # sphere.num_pts /\ sphere.iteration < max_iter
    /\ sphere' = [sphere EXCEPT
                     !.pc = "w1", !.ind = 0,
                     !.delta_w1 = sphere.delta,
                     !.w1 = sphere.delta \div 2]
    /\ UNCHANGED NotSphere

\* lines 836, 858: the test of the outer loop fails
Points2SphereReturn ==
    /\ sphere.pc = "while"
    /\ ~(sphere.ind # sphere.num_pts /\ sphere.iteration < max_iter)
    /\ sphere' = [sphere EXCEPT
                     !.pc = "done",
                     !.ret = SubSeq(sphere.points, 1, sphere.num_pts)]
    /\ UNCHANGED NotSphere

\* lines 840-843
W1Step ==
    /\ sphere.pc = "w1" /\ sphere.w1 < PiFP
    /\ LET delta_w2 == DivFP(sphere.delta_w1, SinFP(sphere.w1))
       IN  sphere' = [sphere EXCEPT !.pc = "w2", !.delta_w2 = delta_w2,
                                    !.w2 = delta_w2 \div 2]
    /\ UNCHANGED NotSphere

\* lines 840, 856-857: the pass is over, delta is rescaled by cbrt(ind / num_pts)
W1Exit ==
    /\ sphere.pc = "w1" /\ ~(sphere.w1 < PiFP)
    /\ sphere' = [sphere EXCEPT
                     !.pc = "while",
                     !.delta = MulFP(sphere.delta,
                                     CbrtFP((sphere.ind * FPScale) \div sphere.num_pts)),
                     !.iteration = sphere.iteration + 1]
    /\ UNCHANGED NotSphere

\* lines 844-847
W2Step ==
    /\ sphere.pc = "w2" /\ sphere.w2 < PiFP
    /\ LET delta_w3 == DivFP(sphere.delta_w2, SinFP(sphere.w2))
       IN  sphere' = [sphere EXCEPT !.pc = "w3", !.delta_w3 = delta_w3,
                                    !.w3 = delta_w3 \div 2]
    /\ UNCHANGED NotSphere

\* lines 844, 855
W2Exit ==
    /\ sphere.pc = "w2" /\ ~(sphere.w2 < PiFP)
    /\ sphere' = [sphere EXCEPT !.pc = "w1", !.w1 = sphere.w1 + sphere.delta_w1]
    /\ UNCHANGED NotSphere

\* lines 848-853: one point is written at row ind (IndexError past the buffer)
W3Write ==
    /\ sphere.pc = "w3" /\ sphere.w3 < 2 * PiFP
    /\ sphere' = IF sphere.ind >= Len(sphere.points)
                 THEN [sphere EXCEPT !.pc = "raised", !.raised = "IndexError"]
                 ELSE [sphere EXCEPT
                          !.points[sphere.ind + 1] =
                              point_of(sphere.w1, sphere.w2, sphere.w3),
                          !.written_in[sphere.ind + 1] = sphere.iteration,
                          !.ind = sphere.ind + 1,
                          !.w3 = sphere.w3 + sphere.delta_w3]
    /\ UNCHANGED NotSphere

\* lines 848, 854
W3Exit ==
    /\ sphere.pc = "w3" /\ ~(sphere.w3 < 2 * PiFP)
    /\ sphere' = [sphere EXCEPT !.pc = "w2", !.w2 = sphere.w2 + sphere.delta_w2]
    /\ UNCHANGED NotSphere


---------------------------------------------------------------------------
(* get_random_quat                                                         *)

MaxRandomPts == 2       \* get_random_quat is called with num_pts in 1..MaxRandomPts

\* np.random.rand draws: values of u1 with rational roots of u1 and 1 - u1, and
\* angles 2 * pi * u in [0, 2 pi) with rational sine and cosine
RandomAngles ==
    { ZeroAngle, <<RInt(0), RInt(1)>>,
      <<Frac(3, 5), Frac(4, 5)>>, <<Frac(-3, 5), Frac(4, 5)>> }

\* lines 884-892; u1, u2, u3 are the three rows of np.random.rand(3, num_pts),
\* the rows u2 and u3 given as the angles 2 * pi * u2 and 2 * pi * u3
get_random_quat(num_pts, u1, u2, u3) ==
    LET quat == << Array([i \in 1..num_pts |->
                       RMul(RSqrt(RSub(RInt(1), u1[i])), SinOf(u2[i]))]),
                   Array([i \in 1..num_pts |->
                       RMul(RSqrt(RSub(RInt(1), u1[i])), CosOf(u2[i]))]),
                   Array([i \in 1..num_pts |-> RMul(RSqrt(u1[i]), SinOf(u3[i]))]),
                   Array([i \in 1..num_pts |-> RMul(RSqrt(u1[i]), CosOf(u3[i]))]) >>
    IN  \* np.transpose(quat)
        Array([i \in 1..Len(quat[1]) |-> Array([k \in 1..Len(quat) |-> quat[k][i]])])

CallGetRandomQuat ==
    /\ sphere.pc = "call" /\ sphere.fn = "get_random_quat"
    /\ \E u1 \in [1..sphere.num_pts -> {RInt(0), Frac(9, 25), Frac(16, 25)}],
          u2 \in [1..sphere.num_pts -> RandomAngles],
          u3 \in [1..sphere.num_pts -> RandomAngles] :
           sphere' = [sphere EXCEPT
                         !.pc = "done",
                         !.ret = get_random_quat(sphere.num_pts, u1, u2, u3)]
    /\ UNCHANGED NotSphere

SphereInit ==
    /\ stencil = Idle /\ slicer = Idle /\ assembly = Idle /\ convert = Idle /\ detector = Idle
    /\ particle = Idle /\ mesh = Idle
    /\ \/ \E num_pts \in (1..MaxNumPts) \cup {LargeNumPts} :
              sphere = Points2SphereCall(num_pts)
       \/ \E num_pts \in 1..MaxRandomPts :
              sphere = [Points2SphereCall(num_pts) EXCEPT !.fn = "get_random_quat"]

SphereNext ==
    \/ Points2SphereEnter
    \/ Points2SpherePass
    \/ Points2SphereReturn
    \/ W1Step
    \/ W1Exit
    \/ W2Step
    \/ W2Exit
    \/ W3Write
    \/ W3Exit
    \/ CallGetRandomQuat

SpecSphere == SphereInit /\ [][SphereNext]_vars

\* C7: points_on_2sphere never writes past its buffer of 2 * num_pts rows (no
\* IndexError, ind <= 2 * num_pts at every step of every pass), and
\* points_on_2sphere(n) and get_random_quat(n) return exactly n rows of 4.
C7_ExactlyNRowsWithinBuffer ==
    /\ sphere.pc # "raised"
    /\ sphere.pc \notin {"idle", "call"} /\ sphere.fn = "points_on_2sphere"
       => sphere.ind <= 2 * sphere.num_pts
    /\ sphere.pc = "done"
       => /\ Len(sphere.ret) = sphere.num_pts
          /\ \A i \in 1..Len(sphere.ret) : Len(sphere.ret[i]) = 4

\* a pass of points_on_2sphere has filled the buffer up to its last row
C7_Witness ==
    /\ sphere.pc = "w3"
    /\ sphere.fn = "points_on_2sphere"
    /\ sphere.ind = 2 * sphere.num_pts

---------------------------------------------------------------------------
(* take_n_slice on several orientations: one output slot per orientation   *)

MaxOrientations == 2    \* the longest orientation sequence of a call

\* detectors of two pixels, on and off the axes; a volume whose voxels all
\* differ: voxel (i, j, k) holds its flat index
SliceInit ==
    /\ stencil = Idle /\ assembly = Idle /\ convert = Idle /\ sphere = Idle /\ detector = Idle
    /\ particle = Idle /\ mesh = Idle
    /\ \E pixel_momentum \in
              { <<<<RInt(1), RInt(0), RInt(0)>>, <<RInt(0), RInt(0), RInt(0)>>>>,
                <<<<RInt(0), RInt(1), RInt(-1)>>, <<RInt(1), RInt(0), RInt(0)>>>>,
                <<<<RInt(1), RInt(1), RInt(1)>>, <<RInt(0), RInt(0), RInt(-1)>>>>,
                <<<<RInt(-1), RInt(0), RInt(1)>>, <<RInt(0), RInt(1), RInt(0)>>>> },
          vl \in {1, 2},
          orientations \in UNION {[1..k -> SliceQuats] : k \in 0..MaxOrientations},
          inverse \in BOOLEAN :
           slicer = TakeNSliceCall(pixel_momentum,
                        [n |-> 3, data |-> [v \in Voxels(3) |-> v[1] * 9 + v[2] * 3 + v[3]]],
                        vl, orientations, inverse)

SpecSlice == SliceInit /\ [][TakeNSliceNext]_vars

\* the call of slicer made again on other orientations, run to its end
CallOnOrientations(orientations) ==
    take_n_slice(TakeNSliceCall(slicer.pixel_momentum, slicer.volume,
                                slicer.voxel_length, orientations,
                                slicer.inverse))

OrderingsOf(n) ==
    {f \in [1..n -> 1..n] : \A i \in 1..n, j \in 1..n : f[i] = f[j] => i = j}

\* C10: while take_n_slice loops, the slots of the orientations already done
\* hold the single-orientation sample of their own orientation and the slots
\* still to do hold zeros, so iteration l writes slot l only; an iteration
\* that raises does so on its own orientation alone; the returned array has
\* one pattern per orientation, in input order, slot l being the sample of
\* the call made on orientations[l] alone; and the call made on permuted
\* orientations returns the same slots permuted the same way.
C10_SlotDependsOnItsOrientationOnly ==
    LET slice_num == Len(slicer.orientations)
        single == Array([k \in 1..slice_num |->
                      CallOnOrientations(<<slicer.orientations[k]>>)])
        zeros == Array([p \in 1..Len(slicer.pixel_momentum) |-> RInt(0)])
    IN  /\ slicer.pc \in {"loop", "raised"} =>
              /\ Len(slicer.slices_holder) = slice_num
              /\ \A k \in 1..slice_num :
                     IF k <= slicer.l
                     THEN /\ single[k].pc = "done"
                          /\ slicer.slices_holder[k] = single[k].ret[1]
                     ELSE slicer.slices_holder[k] = zeros
        /\ slicer.pc = "raised" => single[slicer.l + 1].pc = "raised"
        /\ slicer.pc = "done" =>
              /\ Len(slicer.ret) = slice_num
              /\ \A k \in 1..slice_num :
                     /\ single[k].pc = "done"
                     /\ slicer.ret[k] = single[k].ret[1]
              /\ \A f \in OrderingsOf(slice_num) :
                     LET permuted == CallOnOrientations(
                             Array([k \in 1..slice_num |-> slicer.orientations[f[k]]]))
                     IN  /\ permuted.pc = "done"
                         /\ permuted.ret =
                                Array([k \in 1..slice_num |-> slicer.ret[f[k]]])

\* a call that returned two different patterns for two different orientations
C10_Witness ==
    /\ slicer.pc = "done"
    /\ Len(slicer.orientations) >= 2
    /\ slicer.orientations[1] # slicer.orientations[2]
    /\ slicer.ret[1] # slicer.ret[2]


\* C11: every step of a take_n_slice call (the set-up, each iteration with its
\* rotation, stencil and gather, the return, and an iteration that raises)
\* leaves the caller's volume, pixel-position array and orientation array as
\* they were, whatever the number of orientations already processed.
C11_ArgumentsUnchanged ==
    [][/\ slicer'.volume = slicer.volume
       /\ slicer'.pixel_momentum = slicer.pixel_momentum
       /\ slicer'.orientations = slicer.orientations]_vars

\* a call that has processed two orientations, the first one a true rotation
C11_Witness ==
    /\ slicer.pc \in {"loop", "done"}
    /\ slicer.l = 2
    /\ slicer.orientations[1] # QuatIdentity


\* C12: when angle_axis_to_rot3d or angle_axis_to_quaternion has returned
\* from a call made with an explicit 3-vector axis, the caller's axis array
\* still holds the values it held before the call.
C12_AxisArrayUnchanged ==
    ( /\ convert.pc = "done"
      /\ convert.fn \in {"angle_axis_to_rot3d", "angle_axis_to_quaternion"}
      /\ convert.axis.kind = "ndarray" )
    => convert.axis_after = ValuesOf(convert.axis)


---------------------------------------------------------------------------
(* points_on_1sphere                                                       *)

MaxCirclePts == 8       \* points_on_1sphere is called with num_pts in 1..MaxCirclePts

\* the angle my_ang * np.pi / 180 of lines 811 and 815, for my_ang degrees in
\* [0, 360), as the pair <<cos, sin>> of its half (np.cos and np.sin to 4
\* decimals)
AngleOfDegrees(my_ang) ==
    LET half == (my_ang[1] * PiFP) \div (my_ang[2] * 360)
    IN  <<Frac(CosHalfTurn(half), FPScale), Frac(SinFP(half), FPScale)>>

\* lines 807-809, and the branch taken at lines 810 and 814
Points1SphereEnter ==
    /\ sphere.pc = "call" /\ sphere.fn = "points_on_1sphere"
    /\ sphere' = [sphere EXCEPT
                     !.pc = IF sphere.rotation_axis = "y" THEN "for_y"
                            ELSE IF sphere.rotation_axis = "z" THEN "for_z"
                            ELSE "return",
                     !.points = Array([r \in 1..sphere.num_pts |->
                                    <<RInt(0), RInt(0), RInt(0), RInt(0)>>]),
                     !.inc_ang = Frac(360, sphere.num_pts),
                     !.my_ang = RInt(0),
                     !.i = 0]
    /\ UNCHANGED NotSphere

\* lines 811-813
Points1SphereStepY ==
    /\ sphere.pc = "for_y" /\ sphere.i < sphere.num_pts
    /\ sphere' = [sphere EXCEPT
                     !.points[sphere.i + 1] =
                         angle_axis_to_quaternion(StrAxis("y"),
                                                  AngleOfDegrees(sphere.my_ang)).ret,
                     !.my_ang = RAdd(sphere.my_ang, sphere.inc_ang),
                     !.i = sphere.i + 1]
    /\ UNCHANGED NotSphere

\* lines 815-817
Points1SphereStepZ ==
    /\ sphere.pc = "for_z" /\ sphere.i < sphere.num_pts
    /\ sphere' = [sphere EXCEPT
                     !.points[sphere.i + 1] =
                         angle_axis_to_quaternion(StrAxis("x"),
                                                  AngleOfDegrees(sphere.my_ang)).ret,
                     !.my_ang = RAdd(sphere.my_ang, sphere.inc_ang),
                     !.i = sphere.i + 1]
    /\ UNCHANGED NotSphere

\* line 818
Points1SphereReturn ==
    /\ \/ sphere.pc \in {"for_y", "for_z"} /\ sphere.i = sphere.num_pts
       \/ sphere.pc = "return"
    /\ sphere' = [sphere EXCEPT !.pc = "done", !.ret = sphere.points]
    /\ UNCHANGED NotSphere

CircleInit ==
    /\ stencil = Idle /\ slicer = Idle /\ assembly = Idle /\ convert = Idle /\ detector = Idle
    /\ particle = Idle /\ mesh = Idle
    /\ \E num_pts \in 1..MaxCirclePts, rotation_axis \in {"x", "y", "z", "Y", "w"} :
           sphere = [pc |-> "call", fn |-> "points_on_1sphere", num_pts |-> num_pts,
                     rotation_axis |-> rotation_axis, points |-> <<>>,
                     inc_ang |-> RInt(0), my_ang |-> RInt(0), i |-> 0,
                     raised |-> "", ret |-> <<>>]

CircleNext ==
    \/ Points1SphereEnter
    \/ Points1SphereStepY
    \/ Points1SphereStepZ
    \/ Points1SphereReturn

SpecCircle == CircleInit /\ [][CircleNext]_vars

\* C13: when points_on_1sphere(num_pts, axis) has returned for an axis name
\* x, y or z, it has returned num_pts rows, and row i (from 0) is the
\* quaternion of the rotation by i * 360 / num_pts degrees about that axis.
C13_RowsRotateAboutNamedAxis ==
    ( /\ sphere.pc = "done"
      /\ sphere.fn = "points_on_1sphere"
      /\ sphere.rotation_axis \in {"x", "y", "z"} )
    => /\ Len(sphere.ret) = sphere.num_pts
       /\ \A i \in 0..(sphere.num_pts - 1) :
              sphere.ret[i + 1] =
                  angle_axis_to_quaternion(
                      StrAxis(sphere.rotation_axis),
                      AngleOfDegrees(Frac(360 * i, sphere.num_pts))).ret


\* C14: when points_on_2sphere has returned, whether a pass produced exactly
\* num_pts points or the iteration cap was reached, every one of the num_pts
\* returned rows was written during the last pass (pass iteration - 1): none
\* is left over from an earlier pass or from the zero-initialised buffer.
C14_ReturnedRowsFromLastPass ==
    ( /\ sphere.pc = "done"
      /\ sphere.fn = "points_on_2sphere" )
    => \A r \in 1..sphere.num_pts : sphere.written_in[r] = sphere.iteration - 1


---------------------------------------------------------------------------
(* assemble_image_stack_batch                                              *)

MaxStack == 2           \* a batch has 1..MaxStack stack entries

\* np.zeros((stack_num, rows, columns))
ZerosBatch(stack_num, rows, columns) ==
    [shape |-> <<stack_num, rows, columns>>,
     data  |-> Array([s \in 1..stack_num |-> Zeros(rows, columns).data])]

\* the pixels (i, j) of one panel
PanelPixels(idx) == {<<i, j>> : i \in 1..Len(idx), j \in 1..Len(idx[1])}

\* line 513, image[:, idx[:, :, 0], idx[:, :, 1]] = value: IndexError when an
\* x index is outside -rows..rows-1 or a y index outside -columns..columns-1
ScatterBatchErrors(image, idx) ==
    LET rows == image.shape[2]
        columns == image.shape[3]
    IN  IF \E t \in PanelPixels(idx) :
               \/ idx[t[1]][t[2]][1] < -rows \/ idx[t[1]][t[2]][1] >= rows
               \/ idx[t[1]][t[2]][2] < -columns \/ idx[t[1]][t[2]][2] >= columns
        THEN {"IndexError"} ELSE {}

\* the assignment itself: in every stack entry s, pixel (x, y) of the image
\* becomes value[s][i][j] for the last (i, j), in storage order, mapped to it
ScatterBatch(image, idx, value) ==
    LET rows == image.shape[2]
        columns == image.shape[3]
        Wrap(v, size) == IF v < 0 THEN v + size ELSE v
        Pos(t) == (t[1] - 1) * Len(idx[1]) + t[2]
        Hits(x, y) == {t \in PanelPixels(idx) :
                          /\ Wrap(idx[t[1]][t[2]][1], rows) = x
                          /\ Wrap(idx[t[1]][t[2]][2], columns) = y}
        Last(x, y) == CHOOSE t \in Hits(x, y) : \A u \in Hits(x, y) : Pos(u) <= Pos(t)
    IN  [shape |-> image.shape,
         data  |-> Array([s \in 1..image.shape[1] |->
                     Array([r \in 1..rows |-> Array([m \in 1..columns |->
                         IF Hits(r - 1, m - 1) = {} THEN image.data[s][r][m]
                         ELSE value[s][Last(r - 1, m - 1)[1]][Last(r - 1, m - 1)[2]]])])])]

\* lines 512-513: the loop over the panels, from panel l on;
\* image_stack[:, l, :, :] is the panel l of every stack entry
RECURSIVE ScatterBatchPanels(_, _, _, _)
ScatterBatchPanels(image, image_stack, index_map, l) ==
    IF l > Len(image_stack[1]) THEN [raised |-> {}, image |-> image]
    ELSE IF ScatterBatchErrors(image, index_map[l]) # {}
         THEN [raised |-> ScatterBatchErrors(image, index_map[l]), image |-> image]
         ELSE ScatterBatchPanels(
                  ScatterBatch(image, index_map[l],
                               Array([s \in 1..Len(image_stack) |-> image_stack[s][l]])),
                  image_stack, index_map, l + 1)

\* lines 501-515
assemble_image_stack_batch(image_stack, index_map) ==
    LET index_max_x == SetMax({index_map[l][i][j][1] : l \in 1..Len(index_map),
                                  i \in 1..Len(index_map[1]),
                                  j \in 1..Len(index_map[1][1])})
        index_max_y == SetMax({index_map[l][i][j][2] : l \in 1..Len(index_map),
                                  i \in 1..Len(index_map[1]),
                                  j \in 1..Len(index_map[1][1])})
        stack_num == Len(image_stack)
    IN  IF index_max_x < 0 \/ index_max_y < 0
        THEN [raised |-> {"ValueError"}, image |-> ZerosBatch(0, 0, 0)]
        ELSE ScatterBatchPanels(ZerosBatch(stack_num, index_max_x, index_max_y),
                                image_stack, index_map, 1)

AssembleBatchInit ==
    /\ stencil = Idle /\ slicer = Idle /\ convert = Idle /\ sphere = Idle /\ detector = Idle
    /\ particle = Idle /\ mesh = Idle
    /\ \E stack_num \in 1..MaxStack, panels \in 1..MaxPanels,
          X \in 1..MaxPanelSide, Y \in 1..MaxPanelSide,
          ox \in 0..MaxOffset, oy \in 0..MaxOffset, tiled \in BOOLEAN,
          base \in 1..MaxPanelBase :
           assembly = [pc |-> "call", fn |-> "assemble_image_stack_batch",
                       \* entry s holds the panel values from base + s - 1 on
                       image_stack |-> Array([s \in 1..stack_num |->
                           PanelStack(panels, X, Y, base + s - 1)]),
                       index_map |-> OffsetMap(panels, X, Y, ox, oy, tiled),
                       raised |-> "", ret |-> ZerosBatch(0, 0, 0)]

\* one call of assemble_image_stack_batch
CallAssembleImageStackBatch ==
    /\ assembly.pc = "call" /\ assembly.fn = "assemble_image_stack_batch"
    /\ LET out == assemble_image_stack_batch(assembly.image_stack, assembly.index_map)
       IN  IF out.raised = {}
           THEN assembly' = [assembly EXCEPT !.pc = "done", !.ret = out.image]
           ELSE \E e \in out.raised :
                    assembly' = [assembly EXCEPT !.pc = "raised", !.raised = e]
    /\ UNCHANGED NotAssembly

AssembleBothNext ==
    \/ CallAssembleImageStack
    \/ CallAssembleImageStackBatch

SpecAssembleBoth == (AssembleInit \/ AssembleBatchInit) /\ [][AssembleBothNext]_vars

\* the source pixels <<l, i, j>> of an index map that map to (x, y), and the
\* one of them written last (the later panel, then the later pixel)
SourcesOf(index_map, x, y) ==
    {t \in {<<l, i, j>> : l \in 1..Len(index_map), i \in 1..Len(index_map[1]),
                          j \in 1..Len(index_map[1][1])} :
        index_map[t[1]][t[2]][t[3]] = <<x, y>>}
LastSourceOf(index_map, x, y) ==
    LET Pos(t) == ((t[1] - 1) * Len(index_map[1]) + (t[2] - 1))
                      * Len(index_map[1][1]) + t[3]
    IN  CHOOSE t \in SourcesOf(index_map, x, y) :
            \A u \in SourcesOf(index_map, x, y) : Pos(u) <= Pos(t)

\* what the scatter of one stack of panels should leave at (x, y)
ScatteredValue(panels, index_map, x, y) ==
    IF SourcesOf(index_map, x, y) = {} THEN 0
    ELSE LET t == LastSourceOf(index_map, x, y) IN panels[t[1]][t[2]][t[3]]

\* the target coordinates of an index map with no negative index
TargetsOf(index_map) ==
    LET all == {index_map[l][i][j] : l \in 1..Len(index_map),
                    i \in 1..Len(index_map[1]), j \in 1..Len(index_map[1][1])}
    IN  (0..SetMax({c[1] : c \in all})) \X (0..SetMax({c[2] : c \in all}))

\* C15: when assemble_image_stack or assemble_image_stack_batch has ended, it
\* has returned an image (one per stack entry for the batch form) that holds,
\* at every target coordinate (x, y) up to the largest mapped one, the value
\* of the last source pixel mapped to (x, y), and 0 where none is mapped.
C15_ScatterLastWriteWins ==
    assembly.pc \in {"done", "raised"} =>
        /\ assembly.pc = "done"
        /\ \A c \in TargetsOf(assembly.index_map) :
               IF assembly.fn = "assemble_image_stack"
               THEN /\ c[1] < assembly.ret.shape[1] /\ c[2] < assembly.ret.shape[2]
                    /\ assembly.ret.data[c[1] + 1][c[2] + 1] =
                           ScatteredValue(assembly.image_stack, assembly.index_map,
                                          c[1], c[2])
               ELSE /\ c[1] < assembly.ret.shape[2] /\ c[2] < assembly.ret.shape[3]
                    /\ \A s \in 1..Len(assembly.image_stack) :
                           assembly.ret.data[s][c[1] + 1][c[2] + 1] =
                               ScatteredValue(assembly.image_stack[s],
                                              assembly.index_map, c[1], c[2])


\* C16: when assemble_image_stack_batch(stack, index_map) has ended, it has
\* returned, assemble_image_stack(stack[s], index_map) returns for every
\* stack entry s, and entry s of the batch image is that image.
C16_BatchEqualsSinglePerEntry ==
    ( /\ assembly.pc \in {"done", "raised"}
      /\ assembly.fn = "assemble_image_stack_batch" )
    => /\ assembly.pc = "done"
       /\ \A s \in 1..Len(assembly.image_stack) :
              LET single == assemble_image_stack(assembly.image_stack[s],
                                                 assembly.index_map)
              IN  /\ single.raised = {}
                  /\ assembly.ret.data[s] = single.image.data


---------------------------------------------------------------------------
(* The detector corrections                                                *)

\* A float that a power of ten has been taken out of: [m |-> <<n, d>>,
\* e |-> k] is m * 10^k, with no factor 10 left in n or d, and e = 0 for zero.
\* The squares of lengths scaled by 1e-6 do not fit a rational of machine
\* integers.
RECURSIVE Sci(_, _)
Sci(m, e) ==
    IF m[1] = 0 \/ m[2] = 0 THEN [m |-> m, e |-> 0]
    ELSE IF m[1] % 10 = 0 THEN Sci(<<m[1] \div 10, m[2]>>, e + 1)
    ELSE IF m[2] % 10 = 0 THEN Sci(<<m[1], m[2] \div 10>>, e - 1)
    ELSE [m |-> m, e |-> e]

\* an array of positions times a power of ten: pixel_position * 1e-6 is
\* Scaled(pixel_position, -6)
Scaled(array, e) == [e |-> e, value |-> array]

MicroExponent == -6     \* the factor 1e-6 of line 436

Norm3(v) == RSqrt(RAdd(RAdd(RMul(v[1], v[1]), RMul(v[2], v[2])), RMul(v[3], v[3])))
Dot3(u, v) == RAdd(RAdd(RMul(u[1], v[1]), RMul(u[2], v[2])), RMul(u[3], v[3]))
Cross3(u, v) ==
    << RSub(RMul(u[2], v[3]), RMul(u[3], v[2])),
       RSub(RMul(u[3], v[1]), RMul(u[1], v[3])),
       RSub(RMul(u[1], v[2]), RMul(u[2], v[1])) >>
Direction3(v) == LET n == Norm3(v) IN Array([a \in 1..3 |-> RDiv(v[a], n)])

\* lines 318-319: an array of shape (X, Y, 3) as one of shape (X * Y, 3)
reshape_pixels_position_arrays_to_1d(array) ==
    LET Y == Len(array[1])
    IN  Array([q \in 1..(Len(array) * Y) |->
            array[((q - 1) \div Y) + 1][((q - 1) % Y) + 1]])

\* np.reshape of a 1d array to the shape (X, Y)
Reshape2d(array_1d, X, Y) ==
    Array([i \in 1..X |-> Array([j \in 1..Y |-> array_1d[(i - 1) * Y + j]])])

\* lines 330-345
get_reciprocal_space_pixel_position(pixel_center, wave_vector) ==
    LET pixel_center_1d == reshape_pixels_position_arrays_to_1d(pixel_center)
        wave_vector_norm == Norm3(wave_vector)
        wave_vector_direction == Direction3(wave_vector)
        pixel_center_direction ==
            Array([q \in 1..Len(pixel_center_1d) |-> Direction3(pixel_center_1d[q])])
        pixel_position_reciprocal_1d ==
            Array([q \in 1..Len(pixel_center_1d) |-> Array([a \in 1..3 |->
                RMul(wave_vector_norm,
                     RSub(pixel_center_direction[q][a], wave_vector_direction[a]))])])
    IN  Reshape2d(pixel_position_reciprocal_1d, Len(pixel_center), Len(pixel_center[1]))

\* lines 357-375
get_polarization_correction(pixel_center, polarization) ==
    LET pixel_center_1d == reshape_pixels_position_arrays_to_1d(pixel_center)
        polarization_direction == Direction3(polarization)
        polarization_correction_1d ==
            Array([q \in 1..Len(pixel_center_1d) |->
                LET c == Cross3(Direction3(pixel_center_1d[q]), polarization_direction)
                IN  Dot3(c, c)])
    IN  Reshape2d(polarization_correction_1d, Len(pixel_center), Len(pixel_center[1]))

\* lines 388-410, for positions pixel_center.value * 10^pixel_center.e: the
\* directions do not depend on the power of ten, the squared norm carries it
\* twice
solid_angle(pixel_center, pixel_area, orientation) ==
    LET pixel_center_1d == reshape_pixels_position_arrays_to_1d(pixel_center.value)
        pixel_area_1d ==
            Array([q \in 1..(Len(pixel_area) * Len(pixel_area[1])) |->
                pixel_area[((q - 1) \div Len(pixel_area[1])) + 1]
                          [((q - 1) % Len(pixel_area[1])) + 1]])
        orientation_normalized == Direction3(orientation)
        solid_angle_1d ==
            Array([q \in 1..Len(pixel_center_1d) |->
                LET norm == Norm3(pixel_center_1d[q])
                    dot == Dot3(Direction3(pixel_center_1d[q]),
                                orientation_normalized)
                    cosine == <<Abs(dot[1]), dot[2]>>
                IN  Sci(RMul(cosine, RDiv(pixel_area_1d[q], RMul(norm, norm))),
                        -2 * pixel_center.e)])
    IN  Reshape2d(solid_angle_1d, Len(pixel_area), Len(pixel_area[1]))

\* lines 426-442
get_reciprocal_position_and_correction(pixel_position, pixel_area, wave_vector, polarization, orientation) ==
    LET pixel_position_reciprocal ==
            get_reciprocal_space_pixel_position(pixel_position, wave_vector)
        pixel_position_reciprocal_norm ==
            Array([i \in 1..Len(pixel_position_reciprocal) |->
                Array([j \in 1..Len(pixel_position_reciprocal[1]) |->
                    Norm3(pixel_position_reciprocal[i][j])])])
        polarization_correction ==
            get_polarization_correction(pixel_position, polarization)
        solid_angle_array ==
            solid_angle(Scaled(pixel_position, MicroExponent), pixel_area, orientation)
    IN  <<pixel_position_reciprocal, pixel_position_reciprocal_norm,
          polarization_correction, solid_angle_array>>

Vec3(x, y, z) == <<RInt(x), RInt(y), RInt(z)>>

\* pixel centres of integer length whose direction is at a rational distance
\* from the z direction
DetectorInit ==
    /\ stencil = Idle /\ slicer = Idle /\ assembly = Idle /\ convert = Idle
    /\ sphere = Idle /\ particle = Idle /\ mesh = Idle
    /\ \E pixel_position \in
              UNION {{Reshape2d(Array(f), shape[1], shape[2]) :
                         f \in [1..(shape[1] * shape[2]) ->
                                  {Vec3(0, 0, 5), Vec3(4, 4, 7), Vec3(8, 4, 1),
                                   Vec3(4, 8, 1), Vec3(0, 0, -3)}]} :
                     shape \in {<<1, 1>>, <<1, 2>>, <<2, 1>>}},
          area \in {RInt(1), Frac(1, 4)},
          wave_vector \in {Vec3(0, 0, 1), Vec3(0, 0, 2)},
          polarization \in {Vec3(1, 0, 0), Vec3(3, 4, 0)},
          orientation \in {Vec3(0, 0, 1), Vec3(0, 3, 4)} :
           detector = [pc |-> "call",
                       pixel_position |-> pixel_position,
                       pixel_area |-> Array([i \in 1..Len(pixel_position) |->
                           Array([j \in 1..Len(pixel_position[1]) |-> area])]),
                       wave_vector |-> wave_vector,
                       polarization |-> polarization,
                       orientation |-> orientation,
                       ret |-> <<>>]

CallGetReciprocalPositionAndCorrection ==
    /\ detector.pc = "call"
    /\ detector' = [detector EXCEPT
                       !.pc = "done",
                       !.ret = get_reciprocal_position_and_correction(
                                   detector.pixel_position, detector.pixel_area,
                                   detector.wave_vector, detector.polarization,
                                   detector.orientation)]
    /\ UNCHANGED NotDetector

SpecDetector == DetectorInit /\ [][CallGetReciprocalPositionAndCorrection]_vars

\* C17: get_reciprocal_position_and_correction(p, area, k, pol, normal) has
\* returned the tuple of get_reciprocal_space_pixel_position(p, k), the norm
\* of each of its rows, get_polarization_correction(p, pol) and
\* solid_angle(p, area, normal), each computed from the arguments as given.
C17_AggregateOfTheThree ==
    detector.pc = "done" =>
        LET reciprocal == get_reciprocal_space_pixel_position(
                              detector.pixel_position, detector.wave_vector)
        IN  /\ detector.ret[1] = reciprocal
            /\ detector.ret[2] =
                   Array([i \in 1..Len(reciprocal) |->
                       Array([j \in 1..Len(reciprocal[1]) |-> Norm3(reciprocal[i][j])])])
            /\ detector.ret[3] = get_polarization_correction(
                                     detector.pixel_position, detector.polarization)
            /\ detector.ret[4] = solid_angle(Scaled(detector.pixel_position, 0),
                                             detector.pixel_area, detector.orientation)


---------------------------------------------------------------------------
---------------------------------------------------------------------------
\* the stencil indexes of the pixels of the call in slicer under orientation l
StencilIndexes(l) ==
    LET r0 == quaternion2rot3d(slicer.orientations[l])
        rot_mat == IF slicer.inverse THEN Inv3(r0) ELSE r0
        rotated == rotate_pixels_in_reciprocal_space(rot_mat, slicer.pixel_momentum)
    IN  get_weight_and_index(rotated, slicer.voxel_length, slicer.volume.n).indexes

\* C19: once take_one_slice has gathered the corners of an orientation (the
\* iteration stored its slice, or raised), no corner with an index outside
\* [0, N-1] on some axis has a flattened index ix*N^2 + iy*N + iz that
\* addresses a voxel of the flattened volume (none in -N^3..N^3-1, the range
\* numpy accepts).
C19_OutsideCornerAddressesNoVoxel ==
    slicer.pc \in {"loop", "done", "raised"} =>
        LET N == slicer.volume.n
            gathered == IF slicer.pc = "raised" THEN slicer.l + 1 ELSE slicer.l
        IN  \A l \in 1..gathered :
                LET indexes == StencilIndexes(l)
                IN  \A p \in 1..Len(indexes), c \in 1..8 :
                        (\E a \in 1..3 : indexes[p][c][a] < 0 \/ indexes[p][c][a] > N - 1)
                        => LET flat == indexes[p][c][1] * N * N
                                       + indexes[p][c][2] * N + indexes[p][c][3]
                           IN  flat < -(N * N * N) \/ flat >= N * N * N


---------------------------------------------------------------------------
(* termination of points_on_2sphere                                        *)

Points2SphereInit ==
    /\ stencil = Idle /\ slicer = Idle /\ assembly = Idle /\ convert = Idle /\ detector = Idle
    /\ particle = Idle /\ mesh = Idle
    /\ \E num_pts \in (1..MaxNumPts) \cup {LargeNumPts} :
           sphere = Points2SphereCall(num_pts)

Points2SphereNext ==
    \/ Points2SphereEnter
    \/ Points2SpherePass
    \/ Points2SphereReturn
    \/ W1Step
    \/ W1Exit
    \/ W2Step
    \/ W2Exit
    \/ W3Write
    \/ W3Exit

\* the interpreter runs the one thread of the call: a statement that can be
\* executed is executed
SpecPoints2Sphere ==
    Points2SphereInit /\ [][Points2SphereNext]_vars /\ WF_vars(Points2SphereNext)

---------------------------------------------------------------------------
(* get_random_translations                                                 *)

MaxAtoms == 2           \* atom_pos holds 1..MaxAtoms atoms
MaxAtomCoord == 3       \* an atom's x is 0 or MaxAtomCoord
MaxFocus == 2           \* beam_focus_size is in 1..MaxFocus

\* line 244: np.sqrt(x**2 + y**2) >= beam_focus_size, for a row <<x, y, z>>;
\* a square root is at least a positive b exactly when its argument is at
\* least b * b
outside_focus(row, beam_focus_size) ==
    ~RLt(RAdd(RMul(row[1], row[1]), RMul(row[2], row[2])),
         RMul(beam_focus_size, beam_focus_size))

\* lines 234-236: N = len(atom_pos), flag = True
GetRandomTranslationsEnter ==
    /\ particle.pc = "call"
    /\ particle' = [particle EXCEPT !.pc = "while", !.flag = TRUE]
    /\ UNCHANGED NotParticle

\* lines 237-242: the test of the while loop holds, a shift is drawn and
\* added to every atom; u and v are the values of np.random.uniform(-1, 1),
\* which lie in [-1, 1)
GetRandomTranslationsDraw ==
    /\ particle.pc = "while" /\ particle.flag
    /\ \E u, v \in {RInt(-1), Frac(-1, 2), RInt(0), Frac(1, 2)} :
           LET x_trans == RMul(particle.beam_focus_size, u)
               y_trans == RMul(particle.beam_focus_size, v)
           IN  particle' = [particle EXCEPT
                   !.pc = "for",
                   !.i = 0,
                   !.draws = particle.draws + 1,
                   !.trans = <<x_trans, y_trans, RInt(0)>>,
                   !.new_pos = Array([a \in 1..Len(particle.atom_pos) |->
                       << RAdd(particle.atom_pos[a][1], x_trans),
                          RAdd(particle.atom_pos[a][2], y_trans),
                          RAdd(particle.atom_pos[a][3], RInt(0)) >>])]
    /\ UNCHANGED NotParticle

\* lines 243-248: atom i is tested; flag becomes False on either branch, and
\* an atom outside the focus ends the for loop
GetRandomTranslationsTest ==
    /\ particle.pc = "for" /\ particle.i < Len(particle.atom_pos)
    /\ particle' =
           IF outside_focus(particle.new_pos[particle.i + 1], particle.beam_focus_size)
           THEN [particle EXCEPT !.flag = FALSE, !.pc = "while"]
           ELSE [particle EXCEPT !.flag = FALSE, !.i = particle.i + 1]
    /\ UNCHANGED NotParticle

\* line 243: range(N) is used up
GetRandomTranslationsForEnd ==
    /\ particle.pc = "for" /\ ~(particle.i < Len(particle.atom_pos))
    /\ particle' = [particle EXCEPT !.pc = "while"]
    /\ UNCHANGED NotParticle

\* lines 237, 249: the test of the while loop fails, new_pos is returned
GetRandomTranslationsReturn ==
    /\ particle.pc = "while" /\ ~particle.flag
    /\ particle' = [particle EXCEPT !.pc = "done", !.ret = particle.new_pos]
    /\ UNCHANGED NotParticle

ParticleInit ==
    /\ stencil = Idle /\ slicer = Idle /\ assembly = Idle /\ convert = Idle
    /\ sphere = Idle /\ detector = Idle /\ mesh = Idle
    /\ \E N \in 1..MaxAtoms, beam_focus_size \in 1..MaxFocus :
          \E atom_pos \in [1..N -> {Vec3(x, y, z) : x \in {0, MaxAtomCoord},
                                                    y \in {0, -1}, z \in {0, 2}}] :
              particle = [pc |-> "call", atom_pos |-> Array(atom_pos),
                          beam_focus_size |-> RInt(beam_focus_size),
                          flag |-> FALSE, i |-> 0, draws |-> 0,
                          trans |-> <<>>, new_pos |-> <<>>, ret |-> <<>>]

ParticleNext ==
    \/ GetRandomTranslationsEnter
    \/ GetRandomTranslationsDraw
    \/ GetRandomTranslationsTest
    \/ GetRandomTranslationsForEnd
    \/ GetRandomTranslationsReturn

SpecParticle == ParticleInit /\ [][ParticleNext]_vars

\* C21: when get_random_translations has returned, the returned positions are
\* the atoms moved by one common shift (x, y, 0), and every returned atom lies
\* strictly inside the focus radius, sqrt(x^2 + y^2) < beam_focus_size (a
\* shift that puts an atom at or beyond the radius having been redrawn).
C21_ReturnedAtomsInsideFocus ==
    particle.pc = "done" =>
        /\ \A a \in 1..Len(particle.atom_pos) :
               /\ particle.ret[a][1] = RAdd(particle.atom_pos[a][1], particle.trans[1])
               /\ particle.ret[a][2] = RAdd(particle.atom_pos[a][2], particle.trans[2])
               /\ particle.ret[a][3] = particle.atom_pos[a][3]
        /\ \A a \in 1..Len(particle.atom_pos) :
               ~outside_focus(particle.ret[a], particle.beam_focus_size)


---------------------------------------------------------------------------
(* get_reciprocal_mesh                                                     *)

MaxMeshNum == 5         \* get_reciprocal_mesh is called with voxel_num_1d in 1..MaxMeshNum
MaxMeshVoxelLength == 4 \* and voxel_length in 1..MaxMeshVoxelLength

\* line 460: np.meshgrid(x1, x2, x3) with its default indexing 'xy': three
\* arrays of shape (len(x2), len(x1), len(x3)); at (i, j, k) the first holds
\* x1[j], the second x2[i], the third x3[k] (indices from 0, sequences from 1)
meshgrid(x1, x2, x3) ==
    LET grid == {<<i, j, k>> : i \in 0..(Len(x2) - 1), j \in 0..(Len(x1) - 1),
                               k \in 0..(Len(x3) - 1)}
    IN  << [v \in grid |-> x1[v[2] + 1]],
           [v \in grid |-> x2[v[1] + 1]],
           [v \in grid |-> x3[v[3] + 1]] >>

\* lines 457-462: the axis values, the three grids and the mesh of zeros
GetReciprocalMeshEnter ==
    /\ mesh.pc = "call"
    /\ LET voxel_half_num_1d == python2_int_division(mesh.voxel_num_1d - 1, 2)
           x_meshgrid == Array([i \in 1..mesh.voxel_num_1d |->
               RMul(RSub(RInt(i - 1), voxel_half_num_1d), RInt(mesh.voxel_length))])
       IN  mesh' = [mesh EXCEPT
               !.pc = "for",
               !.l = 0,
               !.reciprocal_mesh_stack = meshgrid(x_meshgrid, x_meshgrid, x_meshgrid),
               !.reciprocal_mesh = [v \in Voxels(mesh.voxel_num_1d) |->
                                        <<RInt(0), RInt(0), RInt(0)>>]]
    /\ UNCHANGED NotMesh

\* lines 463-464: component l of every mesh point is taken from grid l
GetReciprocalMeshCopy ==
    /\ mesh.pc = "for" /\ mesh.l < 3
    /\ mesh' = [mesh EXCEPT
           !.l = mesh.l + 1,
           !.reciprocal_mesh = [v \in Voxels(mesh.voxel_num_1d) |->
               [mesh.reciprocal_mesh[v] EXCEPT
                   ![mesh.l + 1] = mesh.reciprocal_mesh_stack[mesh.l + 1][v]]]]
    /\ UNCHANGED NotMesh

\* lines 463, 466
GetReciprocalMeshReturn ==
    /\ mesh.pc = "for" /\ ~(mesh.l < 3)
    /\ mesh' = [mesh EXCEPT !.pc = "done", !.ret = mesh.reciprocal_mesh]
    /\ UNCHANGED NotMesh

MeshInit ==
    /\ stencil = Idle /\ slicer = Idle /\ assembly = Idle /\ convert = Idle
    /\ sphere = Idle /\ detector = Idle /\ particle = Idle
    /\ \E voxel_num_1d \in 1..MaxMeshNum, voxel_length \in 1..MaxMeshVoxelLength :
           mesh = [pc |-> "call", voxel_num_1d |-> voxel_num_1d,
                   voxel_length |-> voxel_length, l |-> 0,
                   reciprocal_mesh_stack |-> <<>>, reciprocal_mesh |-> <<>>,
                   ret |-> <<>>]

MeshNext ==
    \/ GetReciprocalMeshEnter
    \/ GetReciprocalMeshCopy
    \/ GetReciprocalMeshReturn

SpecMesh == MeshInit /\ [][MeshNext]_vars

\* C22: when get_reciprocal_mesh(N, voxel_length) has returned, for every grid
\* index (i, j, k) in [0, N-1]^3 the position mesh[i, j, k] is converted by
\* the slice engine (position / voxel_length plus the centring shift) to
\* exactly (i, j, k).
C22_MeshPositionsConvertToTheirIndex ==
    mesh.pc = "done" =>
        \A v \in Voxels(mesh.voxel_num_1d) :
            convert_to_voxel_unit(mesh.ret[v], mesh.voxel_length, mesh.voxel_num_1d)
                = <<RInt(v[1]), RInt(v[2]), RInt(v[3])>>

=============================================================================
